---- MODULE Spec2Model ----
(***************************************************************************)
(* Verification model of the two engines of TFT-Stock-Trader:              *)
(*   - the Risk Validation Gate   (backend/services/risk_manager.py)       *)
(*   - the Backtest Simulator     (backend/ml/backtesting/backtest_engine.py) *)
(*                                                                         *)
(* Numbers.  Python floats are IEEE-754 binary64.  The gate's position     *)
(* sizing chain (risk_manager.py:353-367) multiplies and divides by the    *)
(* constants 0.02 and 0.20, which binary64 cannot represent, so its        *)
(* results are rounded; that chain is modelled with binary64 arithmetic    *)
(* (53-bit mantissa, round to nearest, ties to even) on mantissas kept as  *)
(* little-endian sequences of 15-bit limbs.  Prices, portfolio values and  *)
(* drawdowns are integer-valued floats below 2^15 (exact in binary64);     *)
(* confidences are hundredths.                                             *)
(* The backtest's money is modelled with exact rationals; its inputs are   *)
(* dyadic, for which binary64 arithmetic is exact as well.                 *)
(***************************************************************************)
EXTENDS Integers, Sequences, FiniteSets, TLC

\* ------------------------------------------------------------------------
\* Optional values: None is <<>>, a present value v is <<v>>.
\* ------------------------------------------------------------------------
None == <<>>

Some(v) == <<v>>

IsNone(x) == x = <<>>

Val(x) == x[1]

\* ------------------------------------------------------------------------
\* binary64 arithmetic of a float with a small integer.
\* A float is [sign |-> 1 or -1, mant |-> limbs, exp |-> e], of value
\* sign * M * 2^e, where M is the mantissa's integer, 2^52 <= M < 2^53,
\* or M = 0 (then exp = 0, sign = 1).
\* ------------------------------------------------------------------------
LimbBits == 15

LimbBase == 2^LimbBits

MantBits == 53

ZeroLimbs == <<0, 0, 0, 0>>

FZero == [sign |-> 1, mant |-> ZeroLimbs, exp |-> 0]

IsFZero(f) == f.mant = ZeroLimbs

RECURSIVE BitLen(_)
\* number of bits of a natural number below LimbBase
BitLen(n) == IF n = 0 THEN 0 ELSE 1 + BitLen(n \div 2)

RECURSIVE TopLimb(_)
\* index of the highest nonzero limb (0 if all are zero)
TopLimb(ls) ==
  IF Len(ls) = 0 THEN 0
  ELSE IF ls[Len(ls)] # 0 THEN Len(ls)
  ELSE TopLimb(SubSeq(ls, 1, Len(ls) - 1))

\* number of bits of the bignum
BigBitLen(ls) ==
  LET t == TopLimb(ls) IN
  IF t = 0 THEN 0 ELSE (t - 1) * LimbBits + BitLen(ls[t])

RECURSIVE BigMulSmall(_, _, _)
\* limbs * n + carry, n < LimbBase; the result has one limb more
BigMulSmall(ls, n, carry) ==
  IF Len(ls) = 0 THEN <<carry>>
  ELSE LET p == ls[1] * n + carry
       IN  <<p % LimbBase>> \o BigMulSmall(Tail(ls), n, p \div LimbBase)

RECURSIVE BigDivSmall(_, _, _)
\* short division from the top limb down: <<quotient limbs, remainder>>
BigDivSmall(ls, n, rem) ==
  IF Len(ls) = 0 THEN <<(<<>>), rem>>
  ELSE LET cur  == rem * LimbBase + ls[Len(ls)]
           rest == BigDivSmall(SubSeq(ls, 1, Len(ls) - 1), n, cur % n)
       IN  <<rest[1] \o <<cur \div n>>, rest[2]>>

\* limb i of ls, 0 beyond its length
LimbAt(ls, i) == IF i >= 1 /\ i <= Len(ls) THEN ls[i] ELSE 0

\* floor(ls / 2^s) as 4 limbs, for 0 <= s and a quotient below 2^60
BigShiftRight(ls, s) ==
  LET w == s \div LimbBits
      t == s % LimbBits
  IN  [i \in 1..4 |->
         (LimbAt(ls, i + w) \div 2^t)
         + (LimbAt(ls, i + w + 1) % 2^t) * 2^(LimbBits - t)]

\* ls mod 2^s, for 0 <= s <= 30
BigLowBits(ls, s) ==
  IF s <= LimbBits THEN LimbAt(ls, 1) % 2^s
  ELSE LimbAt(ls, 1) + (LimbAt(ls, 2) % 2^(s - LimbBits)) * LimbBase

RECURSIVE BigInc(_)
\* ls + 1 on a fixed number of limbs
BigInc(ls) ==
  IF Len(ls) = 0 THEN <<>>
  ELSE IF ls[1] + 1 < LimbBase THEN <<ls[1] + 1>> \o Tail(ls)
  ELSE <<0>> \o BigInc(Tail(ls))

\* 2^52 and 2^53 on 4 limbs (52 = 3*15 + 7)
MantMinLimbs == <<0, 0, 0, 2^(MantBits - 1 - 3 * LimbBits)>>

MantOverLimbs == <<0, 0, 0, 2^(MantBits - 3 * LimbBits)>>

\* The 53-bit mantissa m at exponent e, renormalised when rounding up
\* carried into bit 54.
Normalised(sign, m, e) ==
  IF m = MantOverLimbs
  THEN [sign |-> sign, mant |-> MantMinLimbs, exp |-> e + 1]
  ELSE [sign |-> sign, mant |-> m, exp |-> e]

\* whether the bits cut off (r, of s bits, plus a nonzero fraction below them
\* when sticky) round the kept mantissa q up: nearest, ties to even
RoundsUp(q, r, s, sticky) ==
  /\ s > 0
  /\ \/ r > 2^(s - 1)
     \/ (r = 2^(s - 1) /\ (sticky \/ q[1] % 2 = 1))

Rounded(q, up) == IF up THEN BigInc(q) ELSE q

\* ls * 2^e with its s lowest bits rounded away
RoundShift(sign, ls, e, sticky, s) ==
  Normalised(sign,
             Rounded(BigShiftRight(ls, s),
                     RoundsUp(BigShiftRight(ls, s), BigLowBits(ls, s), s, sticky)),
             e + s)

\* Round the positive bignum ls * 2^e (plus a nonzero fraction below one unit
\* of ls when sticky) to 53 bits, nearest, ties to even.
RoundToFloat(sign, ls, e, sticky) ==
  RoundShift(sign, ls, e, sticky, BigBitLen(ls) - MantBits)

Sgn(n) == IF n < 0 THEN -1 ELSE 1

Abs(n) == IF n < 0 THEN -n ELSE n

\* f * n in binary64, n an integer with |n| < 2^15
FMulInt(f, n) ==
  IF IsFZero(f) \/ n = 0 THEN FZero
  ELSE RoundToFloat(f.sign * Sgn(n), BigMulSmall(f.mant, Abs(n), 0), f.exp, FALSE)

\* the float of a short division's <<quotient, remainder>>
RoundQuotient(sign, qr, e) == RoundToFloat(sign, qr[1], e, qr[2] # 0)

\* f / n in binary64, n a nonzero integer with |n| < 2^15: the mantissa is
\* scaled by 2^30 so that the quotient keeps at least 15 bits below the 53.
FDivInt(f, n) ==
  IF IsFZero(f) THEN FZero
  ELSE RoundQuotient(f.sign * Sgn(n), BigDivSmall(<<0, 0>> \o f.mant, Abs(n), 0),
                     f.exp - 2 * LimbBits)

RECURSIVE BigLess(_, _)
\* ls < ms for bignums of equal length
BigLess(ls, ms) ==
  IF Len(ls) = 0 THEN FALSE
  ELSE LET n == Len(ls) IN
       IF ls[n] # ms[n] THEN ls[n] < ms[n]
       ELSE BigLess(SubSeq(ls, 1, n - 1), SubSeq(ms, 1, n - 1))

\* magnitude comparison of two nonzero floats
MagLess(f, g) == f.exp < g.exp \/ (f.exp = g.exp /\ BigLess(f.mant, g.mant))

\* f < g
FLess(f, g) ==
  IF IsFZero(f) THEN (~IsFZero(g) /\ g.sign = 1)
  ELSE IF IsFZero(g) THEN f.sign = -1
  ELSE IF f.sign # g.sign THEN f.sign = -1
  ELSE IF f.sign = 1 THEN MagLess(f, g)
  ELSE MagLess(g, f)

\* Python's min(a, b): b only if b < a
FMin(a, b) == IF FLess(b, a) THEN b ELSE a

\* ========================================================================
\* Risk Validation Gate  (backend/services/risk_manager.py)
\* ========================================================================

\* RejectionReason members
CONFIDENCE_TOO_LOW == "CONFIDENCE_TOO_LOW"

POSITION_TOO_LARGE == "POSITION_TOO_LARGE"

RISK_TOO_LARGE == "RISK_TOO_LARGE"

RISK_REWARD_UNFAVORABLE == "RISK_REWARD_UNFAVORABLE"

MAX_POSITIONS_EXCEEDED == "MAX_POSITIONS_EXCEEDED"

PORTFOLIO_IN_DRAWDOWN == "PORTFOLIO_IN_DRAWDOWN"

INVALID_PRICE_LEVELS == "INVALID_PRICE_LEVELS"

MISSING_REQUIRED_FIELDS == "MISSING_REQUIRED_FIELDS"

RejectionReason ==
  { CONFIDENCE_TOO_LOW, POSITION_TOO_LARGE, RISK_TOO_LARGE, RISK_REWARD_UNFAVORABLE,
    MAX_POSITIONS_EXCEEDED, PORTFOLIO_IN_DRAWDOWN, INVALID_PRICE_LEVELS,
    MISSING_REQUIRED_FIELDS }

\* RiskManager configuration.  Confidence is in hundredths, drawdown in percent.
MIN_CONFIDENCE == 70

\* 0.02 = 0x1.47ae147ae147bp-6
MAX_RISK_PER_TRADE == [sign |-> 1, mant |-> <<5243, 3932, 27525, 163>>, exp |-> -58]

\* 0.20 = 0x1.999999999999ap-3
MAX_POSITION_SIZE == [sign |-> 1, mant |-> <<6554, 13107, 26214, 204>>, exp |-> -55]

MIN_RISK_REWARD_RATIO == 2

MAX_CONCURRENT_POSITIONS == 5

\* MAX_PORTFOLIO_DRAWDOWN * 100 = 0.15 * 100, which is 15.0 in binary64
MAX_PORTFOLIO_DRAWDOWN_PCT == 15

\* str.upper() on the signal types of the model
Upper(s) ==
  CASE s = "buy"  -> "BUY"
    [] s = "sell" -> "SELL"
    [] s = "hold" -> "HOLD"
    [] OTHER      -> s

\* RiskValidationResult(passed=False) after __post_init__.  risk_reward_ratio
\* is kept as the exact quotient [num, den] of two integer distances: with
\* distances below 2^15 the binary64 quotient is below 2.0 exactly when the
\* exact one is.
NewResult ==
  [ passed                |-> FALSE,
    rejection_reason      |-> None,
    rejection_message     |-> None,
    position_size_pct     |-> FZero,
    position_size_dollars |-> FZero,
    risk_reward_ratio     |-> [num |-> 0, den |-> 1],
    risk_dollars          |-> FZero,
    validation_notes      |-> <<>> ]

\* An audit note: a confirmation (ok) or a failure of one rule.
Note(ok, rule) == [ok |-> ok, rule |-> rule]

Reject(result, reason, message, rule) ==
  [ result EXCEPT !.rejection_reason  = Some(reason),
                  !.rejection_message = Some(message),
                  !.validation_notes  = Append(@, Note(FALSE, rule)) ]

Confirm(result, rule) ==
  [ result EXCEPT !.validation_notes = Append(@, Note(TRUE, rule)) ]

\* The checks return [ret |-> the bool returned, result |-> the result object
\* as the check leaves it].
Ret(b, result) == [ret |-> b, result |-> result]

\* required_fields, in the order of the dict
RequiredFields(signal) ==
  << <<"ticker", signal.ticker>>, <<"signal_type", signal.signal_type>>,
     <<"confidence", signal.confidence>>, <<"entry_price", signal.entry_price>>,
     <<"target_price", signal.target_price>>, <<"stop_loss", signal.stop_loss>> >>

_validate_required_fields(signal, result) ==
  LET fields  == RequiredFields(signal)
      missing == {i \in 1..Len(fields) : IsNone(fields[i][2])}
  IN  IF missing # {}
      THEN LET first == CHOOSE i \in missing : \A j \in missing : i <= j
           IN  Ret(FALSE, Reject(result, MISSING_REQUIRED_FIELDS,
                                 <<"Missing required field", fields[first][1]>>,
                                 "required_fields"))
      ELSE IF Val(signal.confidence) < 0 \/ Val(signal.confidence) > 100
      THEN Ret(FALSE, Reject(result, MISSING_REQUIRED_FIELDS,
                             <<"Confidence must be 0.0-1.0">>, "required_fields"))
      ELSE IF Val(signal.entry_price) <= 0 \/ Val(signal.target_price) <= 0
              \/ Val(signal.stop_loss) <= 0
      THEN Ret(FALSE, Reject(result, MISSING_REQUIRED_FIELDS,
                             <<"Prices must be positive">>, "required_fields"))
      ELSE Ret(TRUE, result)

_validate_confidence(signal, result) ==
  IF Val(signal.confidence) < MIN_CONFIDENCE
  THEN Ret(FALSE, Reject(result, CONFIDENCE_TOO_LOW,
                         <<"Confidence below minimum">>, "confidence"))
  ELSE Ret(TRUE, Confirm(result, "confidence"))

_validate_price_levels(signal, result) ==
  LET ty     == Upper(Val(signal.signal_type))
      entry  == Val(signal.entry_price)
      target == Val(signal.target_price)
      stop   == Val(signal.stop_loss)
  IN  IF ty = "BUY" /\ ~(stop < entry /\ entry < target)
      THEN Ret(FALSE, Reject(result, INVALID_PRICE_LEVELS,
                             <<"BUY signal requires: stop_loss < entry < target">>,
                             "price_levels"))
      ELSE IF ty = "SELL" /\ ~(target < entry /\ entry < stop)
      THEN Ret(FALSE, Reject(result, INVALID_PRICE_LEVELS,
                             <<"SELL signal requires: target < entry < stop_loss">>,
                             "price_levels"))
      ELSE Ret(TRUE, Confirm(result, "price_levels"))

\* risk_dollars and reward_dollars of a request (the local variables)
RiskDistance(signal) ==
  IF Upper(Val(signal.signal_type)) = "BUY"
  THEN Val(signal.entry_price) - Val(signal.stop_loss)
  ELSE Val(signal.stop_loss) - Val(signal.entry_price)

RewardDistance(signal) ==
  IF Upper(Val(signal.signal_type)) = "BUY"
  THEN Val(signal.target_price) - Val(signal.entry_price)
  ELSE Val(signal.entry_price) - Val(signal.target_price)

\* result.risk_reward_ratio
RiskRewardRatio(risk, reward) ==
  IF risk > 0 THEN [num |-> reward, den |-> risk] ELSE [num |-> 0, den |-> 1]

\* result.position_size_dollars before the cap, from result.risk_dollars
SizedDollars(riskUsd, risk, entry) ==
  IF risk > 0 THEN FMulInt(FDivInt(riskUsd, risk), entry) ELSE FZero

\* the last assignment: position_size_dollars / portfolio_value, which raises
\* ZeroDivisionError when portfolio_value is 0
WithPositionPct(portfolio, result) ==
  IF portfolio.portfolio_value = 0
  THEN [raised |-> TRUE, result |-> result]
  ELSE [raised |-> FALSE,
        result |-> [ result EXCEPT !.position_size_pct =
                       FDivInt(result.position_size_dollars, portfolio.portfolio_value) ]]

WithRiskDollars(signal, portfolio, result, riskUsd) ==
  WithPositionPct(portfolio,
    [ result EXCEPT
        !.risk_reward_ratio     = RiskRewardRatio(RiskDistance(signal), RewardDistance(signal)),
        !.risk_dollars          = riskUsd,
        !.position_size_dollars =
           FMin(SizedDollars(riskUsd, RiskDistance(signal), Val(signal.entry_price)),
                FMulInt(MAX_POSITION_SIZE, portfolio.portfolio_value)) ])

\* _calculate_risk_metrics returns nothing; here [raised, result].
_calculate_risk_metrics(signal, portfolio, result) ==
  WithRiskDollars(signal, portfolio, result,
                  FMulInt(MAX_RISK_PER_TRADE, portfolio.portfolio_value))

_validate_risk_reward_ratio(result) ==
  IF result.risk_reward_ratio.num < MIN_RISK_REWARD_RATIO * result.risk_reward_ratio.den
  THEN Ret(FALSE, Reject(result, RISK_REWARD_UNFAVORABLE,
                         <<"Risk/reward ratio below minimum">>, "risk_reward"))
  ELSE Ret(TRUE, Confirm(result, "risk_reward"))

_validate_position_sizing(result) ==
  IF FLess(MAX_POSITION_SIZE, result.position_size_pct)
  THEN Ret(FALSE, Reject(result, POSITION_TOO_LARGE,
                         <<"Position size exceeds limit">>, "position_sizing"))
  ELSE Ret(TRUE, Confirm(result, "position_sizing"))

\* mutant: the drawdown is checked before the position count
M_portfolio_constraints_DrawdownFirst(portfolio, result) ==
  IF portfolio.portfolio_drawdown_pct > MAX_PORTFOLIO_DRAWDOWN_PCT
  THEN Ret(FALSE, Reject(result, PORTFOLIO_IN_DRAWDOWN,
                         <<"Portfolio drawdown exceeds limit">>, "drawdown"))
  ELSE IF portfolio.current_positions >= MAX_CONCURRENT_POSITIONS
  THEN Ret(FALSE, Reject(result, MAX_POSITIONS_EXCEEDED,
                         <<"Portfolio has too many positions">>, "max_positions"))
  ELSE Ret(TRUE, Confirm(result, "portfolio_constraints"))

\* mutant: the position limit is reached only above MAX_CONCURRENT_POSITIONS
M_portfolio_constraints_CountExclusive(portfolio, result) ==
  IF portfolio.current_positions > MAX_CONCURRENT_POSITIONS
  THEN Ret(FALSE, Reject(result, MAX_POSITIONS_EXCEEDED,
                         <<"Portfolio has too many positions">>, "max_positions"))
  ELSE IF portfolio.portfolio_drawdown_pct > MAX_PORTFOLIO_DRAWDOWN_PCT
  THEN Ret(FALSE, Reject(result, PORTFOLIO_IN_DRAWDOWN,
                         <<"Portfolio drawdown exceeds limit">>, "drawdown"))
  ELSE Ret(TRUE, Confirm(result, "portfolio_constraints"))

_validate_portfolio_constraints(portfolio, result) ==
  IF portfolio.current_positions >= MAX_CONCURRENT_POSITIONS
  THEN Ret(FALSE, Reject(result, MAX_POSITIONS_EXCEEDED,
                         <<"Portfolio has too many positions">>, "max_positions"))
  ELSE IF portfolio.portfolio_drawdown_pct > MAX_PORTFOLIO_DRAWDOWN_PCT
  THEN Ret(FALSE, Reject(result, PORTFOLIO_IN_DRAWDOWN,
                         <<"Portfolio drawdown exceeds limit">>, "drawdown"))
  ELSE Ret(TRUE, Confirm(result, "portfolio_constraints"))

\* The body of RiskManager.validate after validation_count += 1:
\* [raised, accepted, result].  A rejection returns the result as the failing
\* check left it.
Returned(accepted, result) == [raised |-> FALSE, accepted |-> accepted, result |-> result]

Raised(result) == [raised |-> TRUE, accepted |-> FALSE, result |-> result]

\* mutant: an accepted result gets no closing note
M_Accept_NoClosingNote(result) ==
  Returned(TRUE, [ result EXCEPT !.passed = TRUE ])

\* "All checks passed!"
Accept(result) ==
  Returned(TRUE, [ result EXCEPT !.passed = TRUE,
                                 !.validation_notes = Append(@, Note(TRUE, "all")) ])

\* validate from its step 7 on, c being what the step's check returned
After7(c) == IF ~c.ret THEN Returned(FALSE, c.result) ELSE Accept(c.result)

After6(portfolio, c) ==
  IF ~c.ret THEN Returned(FALSE, c.result)
  ELSE After7(_validate_portfolio_constraints(portfolio, c.result))

After5(portfolio, c) ==
  IF ~c.ret THEN Returned(FALSE, c.result)
  ELSE After6(portfolio, _validate_position_sizing(c.result))

\* step 4 has no return of its own
After4(portfolio, m) ==
  IF m.raised THEN Raised(m.result)
  ELSE After5(portfolio, _validate_risk_reward_ratio(m.result))

After3(signal, portfolio, c) ==
  IF ~c.ret THEN Returned(FALSE, c.result)
  ELSE After4(portfolio, _calculate_risk_metrics(signal, portfolio, c.result))

After2(signal, portfolio, c) ==
  IF ~c.ret THEN Returned(FALSE, c.result)
  ELSE After3(signal, portfolio, _validate_price_levels(signal, c.result))

\* mutant: the price levels are checked before the confidence
M_ConfidenceSecond(signal, portfolio, c) ==
  IF ~c.ret THEN Returned(FALSE, c.result)
  ELSE After4(portfolio, _calculate_risk_metrics(signal, portfolio, c.result))

M_PriceLevelsFirst(signal, portfolio, c) ==
  IF ~c.ret THEN Returned(FALSE, c.result)
  ELSE M_ConfidenceSecond(signal, portfolio, _validate_confidence(signal, c.result))

M_After1_PriceLevelsFirst(signal, portfolio, c) ==
  IF ~c.ret THEN Returned(FALSE, c.result)
  ELSE M_PriceLevelsFirst(signal, portfolio, _validate_price_levels(signal, c.result))

After1(signal, portfolio, c) ==
  IF ~c.ret THEN Returned(FALSE, c.result)
  ELSE After2(signal, portfolio, _validate_confidence(signal, c.result))

ValidateBody(signal, portfolio) ==
  After1(signal, portfolio, _validate_required_fields(signal, NewResult))

\* mutant: a manager that has validated before rejects every request
M_ValidateOn_CountConsulted(self, signal, portfolio) ==
  IF self.validation_count > 1 THEN Returned(FALSE, NewResult)
  ELSE ValidateBody(signal, portfolio)

\* validate as a method of the RiskManager self (its three counters): what the
\* body makes of the call's two arguments on that manager.  validated_at, the
\* clock reading stamped on the result, is not part of the model.
ValidateOn(self, signal, portfolio) == ValidateBody(signal, portfolio)

\* ========================================================================
\* Backtest Simulator (backend/ml/backtesting/backtest_engine.py)
\* ========================================================================
\* Money, prices, share counts and confidences are numbers
\* [num, den, exp] = num / den * 2^exp with num and den odd and coprime,
\* den > 0 (0 is 0 / 1 * 2^0).  The configuration and the inputs of the model
\* are dyadic (halves, quarters, prices 1 and 2, 2^-60), so every product and
\* quotient of the engine is exact on them; a sum or difference is exact too,
\* unless one operand is at most 2^-55 of the other, which binary64 rounds
\* to the larger operand.

RECURSIVE Gcd(_, _)
Gcd(a, b) == IF b = 0 THEN a ELSE Gcd(b, a % b)

\* the number of times 2 divides n, for n > 0
RECURSIVE TwoAdic(_)
TwoAdic(n) == IF n % 2 # 0 THEN 0 ELSE 1 + TwoAdic(n \div 2)

\* n / d for d > 0
Frac(n, d) ==
  IF n = 0 THEN [num |-> 0, den |-> 1, exp |-> 0]
  ELSE LET tn == TwoAdic(Abs(n))
           td == TwoAdic(d)
           g  == Gcd(Abs(n) \div 2^tn, d \div 2^td)
       IN  [ num |-> (n \div 2^tn) \div g, den |-> (d \div 2^td) \div g,
             exp |-> tn - td ]

Int2Q(n) == Frac(n, 1)

QZero == Int2Q(0)

QOne == Int2Q(1)

\* q * 2^k
Scaled(q, k) == IF q.num = 0 THEN q ELSE [q EXCEPT !.exp = @ + k]

\* |b| * 2^55 <= |a|, for a and b other than 0: b is below a quarter of the
\* spacing of the binary64 numbers around a, and a + b and a - b round to a
Absorbs(a, b) ==
  /\ a.exp - b.exp >= 55
  /\ \/ a.exp - b.exp >= 85
     \/ (Abs(b.num) * a.den + 2^(a.exp - b.exp - 55) - 1) \div 2^(a.exp - b.exp - 55)
          <= Abs(a.num) * b.den

\* a + b in binary64: the larger operand when it absorbs the other, and the
\* exact sum otherwise
QAdd(a, b) ==
  IF a.num = 0 THEN b
  ELSE IF b.num = 0 THEN a
  ELSE IF Absorbs(a, b) THEN a
  ELSE IF Absorbs(b, a) THEN b
  ELSE LET e == IF a.exp < b.exp THEN a.exp ELSE b.exp
           l == (a.den \div Gcd(a.den, b.den)) * b.den
       IN  Scaled(Frac(a.num * 2^(a.exp - e) * (l \div a.den)
                         + b.num * 2^(b.exp - e) * (l \div b.den), l), e)

QSub(a, b) == QAdd(a, [b EXCEPT !.num = -@])

QMul(a, b) ==
  IF a.num = 0 \/ b.num = 0 THEN QZero
  ELSE LET g1 == Gcd(Abs(a.num), b.den)
           g2 == Gcd(Abs(b.num), a.den)
       IN  [ num |-> (a.num \div g1) * (b.num \div g2),
             den |-> (a.den \div g2) * (b.den \div g1),
             exp |-> a.exp + b.exp ]

\* a / b for b # 0
QDiv(a, b) ==
  QMul(a, [num |-> Sgn(b.num) * b.den, den |-> Abs(b.num), exp |-> -b.exp])

QLess(a, b) == QSub(a, b).num < 0

\* Python's min(a, b) and max(a, b)
QMin(a, b) == IF QLess(b, a) THEN b ELSE a

QMax(a, b) == IF QLess(a, b) THEN b ELSE a

\* BacktestConfig: the engine's configuration (defaults at lines 41-50; the
\* model runs the engine with dyadic values)
BacktestConfig ==
  [ initial_capital |-> Int2Q(64), max_position_size |-> Frac(1, 2),
    transaction_cost |-> Frac(1, 4), min_confidence |-> Frac(1, 2),
    rebalance_days |-> 2 ]

\* the confidence _validate_predictions gives a table without the column
\* (0.6; every table of the model carries the column)
DEFAULT_CONFIDENCE == Frac(3, 5)

\* A table (DataFrame) is [columns, rows]; a row of a table without column c
\* has None in field c.
TickerRows(rows, ticker) == SelectSeq(rows, LAMBDA r : r.ticker = ticker)

\* predictions[predictions['date'] == current_date]
DayRows(rows, current_date) == SelectSeq(rows, LAMBDA r : r.date = current_date)

\* mutant: the day's steps are handed the whole prices table
M_Historical_AllRows(rows, current_date) == rows

\* prices[prices['date'] <= current_date]
Historical(rows, current_date) == SelectSeq(rows, LAMBDA r : r.date <= current_date)

\* rows.sort_values('date').iloc[-1] of a non-empty frame with one row a date
LastByDate(rows) ==
  rows[CHOOSE i \in DOMAIN rows : \A j \in DOMAIN rows : rows[j].date <= rows[i].date]

RECURSIVE Ascending(_)
Ascending(S) ==
  IF S = {} THEN <<>>
  ELSE LET least == CHOOSE x \in S : \A y \in S : x <= y
       IN  <<least>> \o Ascending(S \ {least})

\* mutant: one loop iteration per prediction row, in row order
M_UniqueDates_EveryRow(rows) == [i \in DOMAIN rows |-> rows[i].date]

\* sorted(predictions['date'].unique())
UniqueDates(rows) == Ascending({rows[i].date : i \in DOMAIN rows})

_validate_predictions(predictions) ==
  IF ~({"date", "ticker", "signal"} \subseteq predictions.columns)
    THEN [raised |-> TRUE, frame |-> predictions]
  ELSE IF ~(\A i \in DOMAIN predictions.rows : predictions.rows[i].signal \in {-1, 0, 1})
    THEN [raised |-> TRUE, frame |-> predictions]
  ELSE IF "confidence" \notin predictions.columns
    THEN [raised |-> FALSE,
          frame |-> [columns |-> predictions.columns \cup {"confidence"},
                     rows |-> [i \in DOMAIN predictions.rows |->
                                 [predictions.rows[i] EXCEPT
                                    !.confidence = DEFAULT_CONFIDENCE]]]]
  ELSE [raised |-> FALSE, frame |-> predictions]

_validate_prices(prices) ==
  IF ~({"date", "ticker", "close_price"} \subseteq prices.columns)
    THEN [raised |-> TRUE, frame |-> prices]
  ELSE IF \E i \in DOMAIN prices.rows : prices.rows[i].close_price <= 0
    THEN [raised |-> TRUE, frame |-> prices]
  ELSE [raised |-> FALSE, frame |-> prices]

\* The ledger a step of run works on: e.positions (the dict, in insertion
\* order, each entry carrying its key as .ticker), e.trades, e.capital
\* (current_capital), and two histories kept for the properties: e.opened,
\* one entry per position created, and e.reads, the (simulated date, price row
\* date) pairs of the price rows a step was handed for a ticker it examined.
Held(positions, ticker) == \E i \in DOMAIN positions : positions[i].ticker = ticker

PositionOf(positions, ticker) ==
  positions[CHOOSE i \in DOMAIN positions : positions[i].ticker = ticker]

\* self.positions[ticker] = position
DictSet(positions, position) ==
  IF Held(positions, position.ticker)
    THEN [i \in DOMAIN positions |->
            IF positions[i].ticker = position.ticker THEN position ELSE positions[i]]
  ELSE Append(positions, position)

Read(e, current_date, rows) ==
  [e EXCEPT !.reads = @ \cup {<<current_date, rows[i].date>> : i \in DOMAIN rows}]

\* mutant: the size is not capped at capital * max_position_size
M_SizeFrom_Uncapped(base_size, confidence_factor) ==
  QMax(QMul(base_size, confidence_factor), QZero)

\* min(position_size, capital * max_position_size), then max(position_size, 0)
SizeFrom(base_size, confidence_factor) ==
  QMax(QMin(QMul(base_size, confidence_factor), base_size), QZero)

_calculate_position_size(capital, direction, confidence, config) ==
  SizeFrom(QMul(capital, config.max_position_size),
           QMul(QSub(confidence, Frac(1, 2)), Int2Q(2)))

\* mutant: the entry fee is left out of a trade's P&L
M_Pnl_EntryFeeOmitted(position, exit_price, cost) ==
  IF position.signal = 1
    THEN QSub(QMul(QMul(position.shares, exit_price), QSub(QOne, cost)),
              QMul(position.shares, position.entry_price))
  ELSE QSub(QMul(position.shares, position.entry_price),
            QMul(QMul(position.shares, exit_price), QAdd(QOne, cost)))

\* the P&L of closing position at exit_price, cost being the transaction cost
Pnl(position, exit_price, cost) ==
  IF position.signal = 1
    THEN QSub(QMul(QMul(position.shares, exit_price), QSub(QOne, cost)),
              QMul(QMul(position.shares, position.entry_price), QAdd(QOne, cost)))
  ELSE QSub(QMul(QMul(position.shares, position.entry_price), QSub(QOne, cost)),
            QMul(QMul(position.shares, exit_price), QAdd(QOne, cost)))

TradeRecord(position, exit_date, exit_price, pnl) ==
  [ entry_date |-> position.entry_date, entry_price |-> position.entry_price,
    entry_signal |-> position.signal, exit_date |-> exit_date,
    exit_price |-> exit_price, shares |-> position.shares,
    duration_days |-> exit_date - position.entry_date, pnl |-> pnl,
    pnl_pct |-> IF QLess(QZero, position.position_value)
                  THEN QDiv(pnl, position.position_value) ELSE QZero,
    ticker |-> position.ticker ]

\* mutant: the trade's P&L is not added to the capital
M_Closed_CapitalKept(e, trade) ==
  [e EXCEPT !.trades = Append(@, trade),
            !.positions = SelectSeq(@, LAMBDA p : p.ticker # trade.ticker)]

\* mutant: the closed position is left in the dict
M_Closed_PositionKept(e, trade) ==
  [e EXCEPT !.trades = Append(@, trade),
            !.capital = QAdd(@, trade.pnl)]

\* the trade is recorded, its P&L added to the capital, the position removed
Closed(e, trade) ==
  [e EXCEPT !.trades = Append(@, trade),
            !.capital = QAdd(@, trade.pnl),
            !.positions = SelectSeq(@, LAMBDA p : p.ticker # trade.ticker)]

ClosedAt(e, position, exit_date, exit_price, cost) ==
  Closed(e, TradeRecord(position, exit_date, exit_price, Pnl(position, exit_price, cost)))

_close_position(e, ticker, exit_date, exit_price, config) ==
  IF ~Held(e.positions, ticker) THEN e
  ELSE ClosedAt(e, PositionOf(e.positions, ticker), exit_date, exit_price,
                config.transaction_cost)

\* mutant: a position is closed only by a row of the opposite direction
M_UpdatePosition_OppositeOnly(e, position, current_date, ticker_pred, ticker_prices, config) ==
  IF ticker_prices = <<>> THEN e
  ELSE IF ticker_pred = <<>> THEN Read(e, current_date, ticker_prices)
  ELSE IF ticker_pred[1].signal = -position.signal
    THEN _close_position(Read(e, current_date, ticker_prices), position.ticker,
                         current_date, Int2Q(LastByDate(ticker_prices).close_price),
                         config)
  ELSE Read(e, current_date, ticker_prices)

\* one iteration of _update_positions: ticker_prices and ticker_pred are the
\* position's rows of historical_prices and of day_predictions
UpdatePosition(e, position, current_date, ticker_pred, ticker_prices, config) ==
  IF ticker_prices = <<>> THEN e
  ELSE IF ticker_pred = <<>> THEN Read(e, current_date, ticker_prices)
  ELSE IF ticker_pred[1].signal # position.signal \/ ticker_pred[1].signal = 0
    THEN _close_position(Read(e, current_date, ticker_prices), position.ticker,
                         current_date, Int2Q(LastByDate(ticker_prices).close_price),
                         config)
  ELSE Read(e, current_date, ticker_prices)

\* the loop of _update_positions over items = list(self.positions.items())
RECURSIVE UpdateFrom(_, _, _, _, _, _)
UpdateFrom(e, items, current_date, day_predictions, historical_prices, config) ==
  IF items = <<>> THEN e
  ELSE UpdateFrom(UpdatePosition(e, Head(items), current_date,
                                 TickerRows(day_predictions, Head(items).ticker),
                                 TickerRows(historical_prices, Head(items).ticker),
                                 config),
                  Tail(items), current_date, day_predictions, historical_prices, config)

_update_positions(e, current_date, day_predictions, historical_prices, config) ==
  UpdateFrom(e, e.positions, current_date, day_predictions, historical_prices, config)

\* mutant: opening a position costs nothing
M_Opened_CostFree(e, row, current_date, entry_price, position_value, config) ==
  IF ~QLess(QZero, position_value) THEN e
  ELSE [e EXCEPT
          !.positions = DictSet(@, [ ticker |-> row.ticker,
                                     entry_date |-> current_date,
                                     entry_price |-> entry_price,
                                     signal |-> row.signal,
                                     shares |-> QDiv(position_value, entry_price),
                                     confidence |-> row.confidence,
                                     position_value |-> position_value ]),
          !.opened = Append(@, [ ticker |-> row.ticker, date |-> current_date,
                                 position_value |-> position_value,
                                 signal |-> row.signal,
                                 confidence |-> row.confidence,
                                 capital |-> e.capital ])]

\* the position is created and its transaction cost deducted, unless the
\* computed size is 0 or less
Opened(e, row, current_date, entry_price, position_value, config) ==
  IF ~QLess(QZero, position_value) THEN e
  ELSE [e EXCEPT
          !.capital = QSub(@, QMul(position_value, config.transaction_cost)),
          !.positions = DictSet(@, [ ticker |-> row.ticker,
                                     entry_date |-> current_date,
                                     entry_price |-> entry_price,
                                     signal |-> row.signal,
                                     shares |-> QDiv(position_value, entry_price),
                                     confidence |-> row.confidence,
                                     position_value |-> position_value ]),
          !.opened = Append(@, [ ticker |-> row.ticker, date |-> current_date,
                                 position_value |-> position_value,
                                 signal |-> row.signal,
                                 confidence |-> row.confidence,
                                 capital |-> e.capital ])]

\* mutant: a row below min_confidence is not skipped
M_ExecuteRow_NoConfidenceGuard(e, row, current_date, ticker_price, config) ==
  IF row.signal = 0 THEN e
  ELSE IF Held(e.positions, row.ticker) THEN e
  ELSE IF ticker_price = <<>> THEN e
  ELSE Opened(Read(e, current_date, ticker_price), row, current_date,
              Int2Q(ticker_price[1].close_price),
              _calculate_position_size(e.capital, row.signal, row.confidence, config),
              config)

\* mutant: a row for a ticker that has an open position opens over it
M_ExecuteRow_NoHeldGuard(e, row, current_date, ticker_price, config) ==
  IF QLess(row.confidence, config.min_confidence) THEN e
  ELSE IF row.signal = 0 THEN e
  ELSE IF ticker_price = <<>> THEN e
  ELSE Opened(Read(e, current_date, ticker_price), row, current_date,
              Int2Q(ticker_price[1].close_price),
              _calculate_position_size(e.capital, row.signal, row.confidence, config),
              config)

\* one iteration of _execute_signals: ticker_price is the row's ticker's rows
\* of current_prices
ExecuteRow(e, row, current_date, ticker_price, config) ==
  IF QLess(row.confidence, config.min_confidence) THEN e
  ELSE IF row.signal = 0 THEN e
  ELSE IF Held(e.positions, row.ticker) THEN e
  ELSE IF ticker_price = <<>> THEN e
  ELSE Opened(Read(e, current_date, ticker_price), row, current_date,
              Int2Q(ticker_price[1].close_price),
              _calculate_position_size(e.capital, row.signal, row.confidence, config),
              config)

RECURSIVE _execute_signals(_, _, _, _, _)
_execute_signals(e, current_date, day_predictions, current_prices, config) ==
  IF day_predictions = <<>> THEN e
  ELSE _execute_signals(
         ExecuteRow(e, Head(day_predictions), current_date,
                    TickerRows(current_prices, Head(day_predictions).ticker), config),
         current_date, Tail(day_predictions), current_prices, config)

\* one iteration of _close_all_positions
ClosePosition(e, ticker, exit_date, ticker_price, config) ==
  IF ticker_price = <<>> THEN e
  ELSE _close_position(Read(e, exit_date, ticker_price), ticker, exit_date,
                       Int2Q(ticker_price[1].close_price), config)

\* the loop of _close_all_positions over items = list(self.positions.keys())
RECURSIVE CloseFrom(_, _, _, _, _)
CloseFrom(e, items, exit_date, prices, config) ==
  IF items = <<>> THEN e
  ELSE CloseFrom(ClosePosition(e, Head(items).ticker, exit_date,
                               TickerRows(prices, Head(items).ticker), config),
                 Tail(items), exit_date, prices, config)

_close_all_positions(e, exit_date, prices, config) ==
  CloseFrom(e, e.positions, exit_date, prices, config)

\* numpy's float values: a number, an infinity (q is 1 or -1) or nan.  The
\* sign of a zero is not kept.
XNum(q) == [kind |-> "num", q |-> q]

XInf(sign) == [kind |-> "inf", q |-> Int2Q(sign)]

XNaN == [kind |-> "nan", q |-> QZero]

QSign(q) == IF q.num < 0 THEN -1 ELSE 1

XAdd(a, b) ==
  IF a.kind = "nan" \/ b.kind = "nan" THEN XNaN
  ELSE IF a.kind = "inf" THEN (IF b.kind = "inf" /\ b.q # a.q THEN XNaN ELSE a)
  ELSE IF b.kind = "inf" THEN b
  ELSE XNum(QAdd(a.q, b.q))

XSub(a, b) == XAdd(a, [b EXCEPT !.q = QSub(QZero, @)])

XMul(a, b) ==
  IF a.kind = "nan" \/ b.kind = "nan" THEN XNaN
  ELSE IF a.kind = "inf" \/ b.kind = "inf"
    THEN (IF a.q = QZero \/ b.q = QZero THEN XNaN ELSE XInf(QSign(a.q) * QSign(b.q)))
  ELSE XNum(QMul(a.q, b.q))

XDiv(a, b) ==
  IF a.kind = "nan" \/ b.kind = "nan" THEN XNaN
  ELSE IF b.kind = "inf" THEN (IF a.kind = "inf" THEN XNaN ELSE XNum(QZero))
  ELSE IF a.kind = "inf" THEN XInf(QSign(a.q) * QSign(b.q))
  ELSE IF b.q = QZero THEN (IF a.q = QZero THEN XNaN ELSE XInf(QSign(a.q)))
  ELSE XNum(QDiv(a.q, b.q))

\* a < b, for a and b other than nan
XLess(a, b) ==
  IF a.kind = "inf" THEN a.q.num < 0 /\ b # a
  ELSE IF b.kind = "inf" THEN b.q.num > 0
  ELSE QLess(a.q, b.q)

\* np.maximum and np.minimum, which give nan when an operand is nan
XMax(a, b) ==
  IF a.kind = "nan" \/ b.kind = "nan" THEN XNaN ELSE IF XLess(a, b) THEN b ELSE a

XMin(a, b) ==
  IF a.kind = "nan" \/ b.kind = "nan" THEN XNaN ELSE IF XLess(b, a) THEN b ELSE a

\* _calculate_metrics, for an equity curve of two samples or more.  The
\* quotients are kept exact: rounding changes neither the sign of a drawdown
\* nor whether it is nan.
\* returns = np.diff(equity_array) / equity_array[:-1]
DailyReturns(equity_curve) ==
  [i \in 1..(Len(equity_curve) - 1) |->
     XDiv(XNum(QSub(equity_curve[i + 1], equity_curve[i])), XNum(equity_curve[i]))]

\* np.cumprod(1 + returns)[i]
RECURSIVE Cumulative(_, _)
Cumulative(returns, i) ==
  IF i = 1 THEN XAdd(XNum(QOne), returns[1])
  ELSE XMul(Cumulative(returns, i - 1), XAdd(XNum(QOne), returns[i]))

\* np.maximum.accumulate(cumulative)[i]
RECURSIVE RunningMax(_, _)
RunningMax(cumulative, i) ==
  IF i = 1 THEN cumulative[1] ELSE XMax(RunningMax(cumulative, i - 1), cumulative[i])

\* (cumulative - running_max) / running_max
Drawdown(cumulative) ==
  [i \in DOMAIN cumulative |->
     XDiv(XSub(cumulative[i], RunningMax(cumulative, i)), RunningMax(cumulative, i))]

\* np.min(drawdown[1..i])
RECURSIVE MinUpTo(_, _)
MinUpTo(drawdown, i) ==
  IF i = 1 THEN drawdown[1] ELSE XMin(MinUpTo(drawdown, i - 1), drawdown[i])

MaxDrawdown(returns) ==
  MinUpTo(Drawdown([i \in DOMAIN returns |-> Cumulative(returns, i)]), Len(returns))

\* sum(t.pnl for t in trades[1..i] if t.pnl > 0) for sign = 1, and the same
\* for t.pnl < 0 for sign = -1
RECURSIVE PnlSum(_, _, _)
PnlSum(trades, i, sign) ==
  IF i = 0 THEN QZero
  ELSE IF sign * trades[i].pnl.num > 0
    THEN QAdd(PnlSum(trades, i - 1, sign), trades[i].pnl)
  ELSE PnlSum(trades, i - 1, sign)

\* total_wins / (total_losses + 1e-8) if total_losses > 0 else np.inf; the
\* 1e-8, below the resolution of the model's numbers, is left out of the
\* divisor: it changes neither the sign of the quotient nor its finiteness
ProfitFactor(total_wins, total_losses) ==
  IF QLess(QZero, total_losses) THEN XNum(QDiv(total_wins, total_losses)) ELSE XInf(1)

\* the trade metrics (lines 470-487)
TradeMetrics(trades) ==
  IF trades # <<>>
    THEN [ win_rate |-> Frac(Cardinality({i \in DOMAIN trades :
                                           QLess(QZero, trades[i].pnl)}), Len(trades)),
           profit_factor |-> ProfitFactor(PnlSum(trades, Len(trades), 1),
                                          QSub(QZero, PnlSum(trades, Len(trades), -1))) ]
  ELSE [ win_rate |-> QZero, profit_factor |-> XNum(QZero) ]

_calculate_metrics(equity_curve, trades) ==
  [ max_drawdown |-> MaxDrawdown(DailyReturns(equity_curve)),
    num_trades |-> Len(trades),
    win_rate |-> TradeMetrics(trades).win_rate,
    profit_factor |-> TradeMetrics(trades).profit_factor ]

\* mutant: every simulated day is a rebalance day
M_IsRebalanceDay_EveryDay(idx, cfg) == TRUE

\* if day_idx % self.config.rebalance_days == 0
IsRebalanceDay(idx, cfg) == idx % cfg.rebalance_days = 0

\* run, lines 120-135, on the engine eng: vp and vq are what the two
\* validations gave.  A validation error leaves the engine as it is; otherwise
\* the engine is reset and the day loop is entered.
RunState(cfg) ==
  [ positions |-> <<>>, trades |-> <<>>, equity_curve |-> <<cfg.initial_capital>>,
    dates |-> <<>>, capital |-> cfg.initial_capital, opened |-> <<>>, reads |-> {} ]

\* mutant: the engine is reset before the inputs are validated
M_Entered_ResetFirst(eng, vp, vq, cfg) == RunState(cfg)

Entered(eng, vp, vq, cfg) ==
  IF vp.raised \/ vq.raised THEN eng ELSE RunState(cfg)

VARIABLES
  \* --- Risk Validation Gate ---
  signal,             \* the SignalValidationRequest of the call
  portfolio,          \* the PortfolioState of the call
  validation_count,   \* RiskManager.validation_count
  acceptance_count,   \* RiskManager.acceptance_count
  rejection_count,    \* RiskManager.rejection_count
  outcome,            \* "called": validate is entered; "returned"; "raised"
  result,             \* the RiskValidationResult returned (None before, and on a raise)
  callers,            \* the threads calling validate on one shared RiskManager
  \* --- Backtest Simulator ---
  config,             \* BacktestEngine.config
  predictions,        \* the predictions table of the current call of run
  prices,             \* the prices table of the current call of run
  positions,          \* BacktestEngine.positions
  trades,             \* BacktestEngine.trades
  equity_curve,       \* BacktestEngine.equity_curve
  dates,              \* BacktestEngine.dates
  summary,            \* BacktestEngine.summary (None: the empty dict)
  current_capital,    \* run's local current_capital
  day_idx,            \* run's loop index
  pc,                 \* where run is: "called", "update", "execute", "record",
                      \* "close_all", "returned", "ValueError", "IndexError"
  opened,             \* history: the positions created during the current run
  reads,              \* history: the price rows read during the current run
  at_entry,           \* history: positions, trades, equity curve at the call's entry
  calls,              \* history: the number of calls of run made on the engine
  \* --- Model Registry ---
  versions,           \* ModelRegistry.versions: version id -> ModelVersion (None: no key)
  versions_file,      \* the content of versions.json
  registry_call,      \* the last call on the registry, with how it ended
  \* --- Retry with backoff ---
  retry_config,       \* the RetryConfig of the wrapper or of the get_delay call
  wrapper,            \* retry_with_backoff's wrapper: its locals and what it has done
  delay_call          \* the last direct call of get_delay, with what it returned

riskVars ==
  <<signal, portfolio, validation_count, acceptance_count, rejection_count,
    outcome, result, callers>>

btVars ==
  <<config, predictions, prices, positions, trades, equity_curve, dates, summary,
    current_capital, day_idx, pc, opened, reads, at_entry, calls>>

registryVars == <<versions, versions_file, registry_call>>

retryVars == <<retry_config, wrapper, delay_call>>

utilVars == <<registryVars, retryVars>>

vars == <<riskVars, btVars, utilVars>>

\* ------------------------------------------------------------------------
\* The requests and portfolios of the model
\* ------------------------------------------------------------------------
Tickers == {None, Some("AAPL")}

SignalTypes == {Some("BUY"), Some("SELL"), Some("HOLD"), Some("buy")}

Confidences == {None, Some(-1), Some(0), Some(69), Some(70), Some(100), Some(101)}

EntryPrices == {None, Some(0), Some(95), Some(100)}

TargetPrices == {None, Some(0), Some(80), Some(95), Some(110), Some(140)}

StopLosses == {None, Some(0), Some(80), Some(95), Some(110)}

Requests ==
  [ ticker : Tickers, signal_type : SignalTypes, confidence : Confidences,
    entry_price : EntryPrices, target_price : TargetPrices, stop_loss : StopLosses ]

\* 3 and 10241 are values v with (v * 0.2) / v > 0.2 in binary64
PortfolioValues == {-100, 0, 3, 10241, 20000}

CurrentPositions == {4, 5}

Drawdowns == {15, 16}

Portfolios ==
  [ portfolio_value : PortfolioValues, current_positions : CurrentPositions,
    portfolio_drawdown_pct : Drawdowns ]

\* The callers of the shared manager (the module-level risk_manager): each is
\* idle or inside one call of validate.  A caller keeps the two objects it
\* passed (signal, portfolio), a copy of them taken at the call (given), and,
\* as history, the number of its call (entered_as) and the manager's
\* validation_count when the body ran (seen).
MaxCalls == 3

Callers == {"a", "b"}

SoundRequest ==
  [ ticker |-> Some("AAPL"), signal_type |-> Some("BUY"), confidence |-> Some(70),
    entry_price |-> Some(100), target_price |-> Some(110), stop_loss |-> Some(95) ]

CallRequests == {SoundRequest, [SoundRequest EXCEPT !.confidence = Some(69)]}

CallPortfolios ==
  { [portfolio_value |-> 20000, current_positions |-> 4, portfolio_drawdown_pct |-> 15],
    [portfolio_value |-> 20000, current_positions |-> 5, portfolio_drawdown_pct |-> 16],
    [portfolio_value |-> 0, current_positions |-> 4, portfolio_drawdown_pct |-> 15] }

CallInputs == [signal : CallRequests, portfolio : CallPortfolios]

IdleCaller ==
  [ pc |-> "idle", signal |-> SoundRequest,
    portfolio |-> [portfolio_value |-> 20000, current_positions |-> 4,
                   portfolio_drawdown_pct |-> 15],
    given |-> [signal |-> SoundRequest,
               portfolio |-> [portfolio_value |-> 20000, current_positions |-> 4,
                              portfolio_drawdown_pct |-> 15]],
    entered_as |-> 0, seen |-> 0, v |-> Raised(NewResult) ]

\* ------------------------------------------------------------------------
\* The tables of the model, and the backtest as a state machine
\* ------------------------------------------------------------------------
MaxDate == 3

MaxRuns == 2

Dates == 1..MaxDate

PredictionColumns == {"date", "ticker", "signal", "confidence"}

PriceColumns == {"date", "ticker", "close_price"}

\* what the first ticker's tables hold for one date: the day's prediction
\* rows with the day's close price (0: no price row).  A day without a row or
\* with a neutral row has no price row or the price 1; a day with a long or a
\* short row has no price row or the price 1 or 2; with the price 1 a day can
\* also hold a long below min_confidence, a short of size 0, or two rows, a
\* long and then a short.
DayChoices ==
  [rows : { <<>>, <<[signal |-> 0, confidence |-> QOne]>> }, close_price : {0, 1}]
    \cup [rows : { <<[signal |-> 1, confidence |-> QOne]>>,
                   <<[signal |-> -1, confidence |-> QOne]>> },
          close_price : {0, 1, 2}]
    \cup [rows : { <<[signal |-> 1, confidence |-> Frac(1, 4)]>>,
                   <<[signal |-> -1, confidence |-> Frac(1, 2)]>>,
                   <<[signal |-> 1, confidence |-> QOne],
                     [signal |-> -1, confidence |-> Frac(3, 4)]>> },
          close_price : {1}]

PredictionRows(ticker, d, rows) ==
  [i \in DOMAIN rows |->
     [date |-> d, ticker |-> ticker, signal |-> rows[i].signal,
      confidence |-> rows[i].confidence]]

RECURSIVE PredictionsFrom(_, _, _)
PredictionsFrom(ticker, choices, d) ==
  IF d > MaxDate THEN <<>>
  ELSE PredictionRows(ticker, d, choices[d].rows)
       \o PredictionsFrom(ticker, choices, d + 1)

RECURSIVE PricesFrom(_, _, _)
PricesFrom(ticker, choices, d) ==
  IF d > MaxDate THEN <<>>
  ELSE (IF choices[d].close_price = 0 THEN <<>>
        ELSE <<[date |-> d, ticker |-> ticker, close_price |-> choices[d].close_price]>>)
       \o PricesFrom(ticker, choices, d + 1)

\* the second ticker: absent; short on date 1 with its only price row on
\* date 1; long on date 1 and short on the last date with prices on both
OtherTicker ==
  { [predictions |-> <<>>, prices |-> <<>>],
    [predictions |-> PredictionRows("MSFT", 1, <<[signal |-> -1, confidence |-> QOne]>>),
     prices |-> <<[date |-> 1, ticker |-> "MSFT", close_price |-> 2]>>],
    [predictions |->
       PredictionRows("MSFT", 1, <<[signal |-> 1, confidence |-> Frac(3, 4)]>>)
       \o PredictionRows("MSFT", MaxDate, <<[signal |-> -1, confidence |-> Frac(3, 4)]>>),
     prices |-> <<[date |-> 1, ticker |-> "MSFT", close_price |-> 1],
                  [date |-> MaxDate, ticker |-> "MSFT", close_price |-> 2]>>] }

\* well-formed inputs: the rows of each table grouped by ticker
WellFormedInputs ==
  { [predictions |-> [columns |-> PredictionColumns,
                      rows |-> PredictionsFrom("AAPL", a, 1) \o b.predictions],
     prices |-> [columns |-> PriceColumns,
                 rows |-> PricesFrom("AAPL", a, 1) \o b.prices]] :
      a \in [Dates -> DayChoices], b \in OtherTicker }

OneLong ==
  [columns |-> PredictionColumns,
   rows |-> PredictionRows("AAPL", 1, <<[signal |-> 1, confidence |-> QOne]>>)]

OnePrice ==
  [columns |-> PriceColumns,
   rows |-> <<[date |-> 1, ticker |-> "AAPL", close_price |-> 1]>>]

\* inputs with a structural error: a table without a required column (its
\* rows carry a 0 in that field, which nothing reads), a signal outside
\* {-1, 0, 1}, a close price that is not positive
MalformedInputs ==
  { [predictions |-> [columns |-> PredictionColumns \ {"signal"},
                      rows |-> <<[date |-> 1, ticker |-> "AAPL", signal |-> 0,
                                  confidence |-> QOne]>>],
     prices |-> OnePrice],
    [predictions |-> [columns |-> PredictionColumns,
                      rows |-> OneLong.rows \o
                               <<[date |-> 2, ticker |-> "AAPL", signal |-> 2,
                                  confidence |-> QOne]>>],
     prices |-> OnePrice],
    [predictions |-> OneLong,
     prices |-> [columns |-> PriceColumns \ {"close_price"},
                 rows |-> <<[date |-> 1, ticker |-> "AAPL", close_price |-> 0]>>]],
    [predictions |-> OneLong,
     prices |-> [columns |-> PriceColumns,
                 rows |-> OnePrice.rows \o
                          <<[date |-> 2, ticker |-> "AAPL", close_price |-> 0]>>]] }

\* the inputs of a further call of run on an engine that has run before
LaterInputs == MalformedInputs \cup {[predictions |-> OneLong, prices |-> OnePrice]}

\* ------------------------------------------------------------------------
\* The Model Registry (backend/ml/registry/model_registry.py)
\* ------------------------------------------------------------------------
\* the values of the enumeration VersionStatus
EXPERIMENTAL == "experimental"

STAGING == "staging"

PRODUCTION == "production"

ARCHIVED == "archived"

ROLLBACK == "rollback"

VersionStatus == {EXPERIMENTAL, STAGING, PRODUCTION, ARCHIVED, ROLLBACK}

\* the version ids of the model
VersionIds == {"v1.0.0", "v1.1.0"}

\* mutant: an experimental version may go straight to production
M_valid_transitions_SkipStaging(old_status) ==
  CASE old_status = EXPERIMENTAL -> {STAGING, ARCHIVED, PRODUCTION}
    [] old_status = STAGING -> {PRODUCTION, EXPERIMENTAL, ARCHIVED}
    [] old_status = PRODUCTION -> {STAGING, ROLLBACK}
    [] old_status = ARCHIVED -> {EXPERIMENTAL}
    [] OTHER -> {}

\* valid_transitions.get(old_status, [])
valid_transitions(old_status) ==
  CASE old_status = EXPERIMENTAL -> {STAGING, ARCHIVED}
    [] old_status = STAGING -> {PRODUCTION, EXPERIMENTAL, ARCHIVED}
    [] old_status = PRODUCTION -> {STAGING, ROLLBACK}
    [] old_status = ARCHIVED -> {EXPERIMENTAL}
    [] OTHER -> {}

\* a ModelVersion, as far as the model follows it
ModelVersion(version_id, status) == [version_id |-> version_id, status |-> status]

\* _save_registry: every version's to_dict()
Saved(registry) ==
  [v \in VersionIds |-> IF registry[v] = None THEN None ELSE Some(Val(registry[v]))]

\* ModelRegistry(registry_dir) constructed on an empty directory
RegistryIdle ==
  /\ versions = [v \in VersionIds |-> None]
  /\ versions_file = None
  /\ registry_call = None

\* ------------------------------------------------------------------------
\* Retry with exponential backoff (backend/utils/retry.py)
\* ------------------------------------------------------------------------
\* RetryConfig.__init__
RetryConfig(max_retries, base_delay, max_delay, exponential_base, jitter) ==
  [ max_retries |-> max_retries, base_delay |-> base_delay, max_delay |-> max_delay,
    exponential_base |-> exponential_base, jitter |-> jitter ]

REDDIT_CONFIG == RetryConfig(5, Int2Q(2), Int2Q(120), Int2Q(2), TRUE)

YFINANCE_CONFIG == RetryConfig(3, Int2Q(1), Int2Q(30), Int2Q(2), TRUE)

GENERIC_CONFIG == RetryConfig(5, Int2Q(1), Int2Q(60), Int2Q(2), TRUE)

\* the configuration of the decorator's usage example: RetryConfig(max_retries=3,
\* base_delay=0.5)
ExampleConfig == RetryConfig(3, Frac(1, 2), Int2Q(60), Int2Q(2), TRUE)

\* the configurations of the module, each with jitter on and off, and one that
\* allows no retry
RetryConfigs ==
  LET named == {REDDIT_CONFIG, YFINANCE_CONFIG, GENERIC_CONFIG, ExampleConfig}
  IN  named \cup {[c EXCEPT !.jitter = FALSE] : c \in named}
            \cup {[GENERIC_CONFIG EXCEPT !.max_retries = 0]}

\* exponential_base ** retry_count
RECURSIVE QPow(_, _)
QPow(b, n) == IF n = 0 THEN QOne ELSE QMul(b, QPow(b, n - 1))

\* hash(str(time.time())) % 20: any of the twenty residues
JitterHashes == 0..19

\* RetryConfig.get_delay; h is the value of hash(str(time.time())) % 20
get_delay(self, retry_count, h) ==
  LET raw_delay == QMul(self.base_delay, QPow(self.exponential_base, retry_count))
      delay == QMin(raw_delay, self.max_delay)
      jitter_factor == QAdd(QOne, QDiv(QSub(Int2Q(h), Int2Q(10)), Int2Q(100)))
  IN  IF self.jitter THEN QMul(delay, jitter_factor) ELSE delay

\* An exception as should_retry sees it: its type, its status_code and
\* response.status_code attributes (None: no such attribute) and which of the
\* substrings should_retry looks for its lowercased message contains
Error(type, status_code, response_status, says) ==
  [ type |-> type, status_code |-> status_code, response_status |-> response_status,
    says |-> says ]

\* the exceptions the wrapped function raises
Errors ==
  { Error("TimeoutError", None, None, {}),
    Error("ConnectionError", None, None, {"connection", "reset"}),
    Error("Exception", None, None, {"http 503", "503"}),
    Error("Exception", None, None, {"http 429", "429", "too many"}),
    Error("Exception", None, None, {}),
    Error("HTTPError", Some(404), None, {}),
    Error("HTTPError", Some(503), None, {}),
    Error("ResponseException", None, Some(429), {}),
    Error("OSError", None, None, {"temporarily"}),
    Error("ValueError", None, None, {}) }

\* should_retry
should_retry(exception) ==
  IF exception.type = "TimeoutError" THEN TRUE
  ELSE IF exception.type = "ConnectionError" THEN TRUE
  ELSE IF exception.response_status = Some(429) THEN TRUE
  ELSE IF exception.status_code # None /\ Val(exception.status_code) \in {429, 502, 503, 504}
    THEN TRUE
  ELSE IF /\ exception.status_code # None
          /\ 400 <= Val(exception.status_code)
          /\ Val(exception.status_code) < 500
    THEN FALSE
  ELSE IF "http 429" \in exception.says \/ {"429", "too many"} \subseteq exception.says
    THEN TRUE
  ELSE IF exception.says \cap {"http 500", "http 502", "http 503", "http 504",
                              "500", "502", "503", "504"} # {}
    THEN TRUE
  ELSE exception.says \cap {"timeout", "connection", "refused", "reset",
                            "temporarily"} # {}

\* no wrapper is running and get_delay has not been called
RetryIdle ==
  /\ retry_config = GENERIC_CONFIG
  /\ wrapper = None
  /\ delay_call = None

UtilIdle == RegistryIdle /\ RetryIdle

\* the variables of the part of the program a specification does not run
RiskIdle ==
  /\ signal = None
  /\ portfolio = None
  /\ validation_count = 0
  /\ acceptance_count = 0
  /\ rejection_count = 0
  /\ outcome = "idle"
  /\ result = None
  /\ callers = [c \in Callers |-> IdleCaller]

\* BacktestEngine(cfg) constructed (lines 91-99)
ConstructedWith(cfg) ==
  /\ config = cfg
  /\ positions = <<>>
  /\ trades = <<>>
  /\ equity_curve = <<cfg.initial_capital>>
  /\ dates = <<>>
  /\ summary = None
  /\ current_capital = cfg.initial_capital
  /\ day_idx = 0
  /\ opened = <<>>
  /\ reads = {}
  /\ at_entry = [positions |-> <<>>, trades |-> <<>>,
               equity_curve |-> <<cfg.initial_capital>>]

Constructed == ConstructedWith(BacktestConfig)

BacktestIdle ==
  /\ Constructed
  /\ predictions = None
  /\ prices = None
  /\ pc = "idle"
  /\ calls = 0

\* RiskManager() constructed, and validate(signal, portfolio) entered
RiskInit ==
  /\ signal \in Requests
  /\ portfolio \in Portfolios
  /\ validation_count = 0
  /\ acceptance_count = 0
  /\ rejection_count = 0
  /\ outcome = "called"
  /\ result = None
  /\ callers = [c \in Callers |-> IdleCaller]
  /\ BacktestIdle
  /\ UtilIdle

\* the counters and the caller's view when the body ends as v
Finish(v) ==
  /\ validation_count' = validation_count + 1
  /\ outcome' = IF v.raised THEN "raised" ELSE "returned"
  /\ result' = IF v.raised THEN None ELSE Some(v.result)
  /\ acceptance_count' = acceptance_count + (IF ~v.raised /\ v.accepted THEN 1 ELSE 0)
  /\ rejection_count' = rejection_count + (IF ~v.raised /\ ~v.accepted THEN 1 ELSE 0)

\* RiskManager.validate
Validate ==
  /\ outcome = "called"
  /\ Finish(ValidateBody(signal, portfolio))
  /\ UNCHANGED <<signal, portfolio, callers>>
  /\ UNCHANGED <<btVars, utilVars>>

RiskNext == Validate

SpecRisk == RiskInit /\ [][RiskNext]_vars

\* ------------------------------------------------------------------------
\* validate called by several threads on one RiskManager
\* ------------------------------------------------------------------------
RiskCallsInit == RiskIdle /\ BacktestIdle /\ UtilIdle

Self ==
  [ validation_count |-> validation_count, acceptance_count |-> acceptance_count,
    rejection_count |-> rejection_count ]

\* caller c calls validate(signal, portfolio): self.validation_count += 1
Call(c) ==
  /\ callers[c].pc \in {"idle", "returned", "raised"}
  /\ validation_count < MaxCalls
  /\ \E input \in CallInputs :
       callers' = [callers EXCEPT ![c] =
                     [ pc |-> "entered", signal |-> input.signal,
                       portfolio |-> input.portfolio, given |-> input,
                       entered_as |-> validation_count + 1, seen |-> 0,
                       v |-> Raised(NewResult) ]]
  /\ validation_count' = validation_count + 1
  /\ UNCHANGED <<signal, portfolio, acceptance_count, rejection_count, outcome, result>>
  /\ UNCHANGED <<btVars, utilVars>>

\* the checks of c's call run, up to the counter update before its return
\* (or to the exception that ends it)
Check(c) ==
  /\ callers[c].pc = "entered"
  /\ callers' = [callers EXCEPT ![c] =
       [ pc |-> IF ValidateOn(Self, callers[c].signal, callers[c].portfolio).raised
                  THEN "raised" ELSE "checked",
         signal |-> callers[c].signal, portfolio |-> callers[c].portfolio,
         given |-> callers[c].given, entered_as |-> callers[c].entered_as,
         seen |-> validation_count,
         v |-> ValidateOn(Self, callers[c].signal, callers[c].portfolio) ]]
  /\ UNCHANGED <<signal, portfolio, validation_count, acceptance_count,
                 rejection_count, outcome, result>>
  /\ UNCHANGED <<btVars, utilVars>>

\* self.acceptance_count += 1 or self.rejection_count += 1, and return result
Return(c) ==
  /\ callers[c].pc = "checked"
  /\ callers' = [callers EXCEPT ![c].pc = "returned"]
  /\ acceptance_count' = acceptance_count + (IF callers[c].v.accepted THEN 1 ELSE 0)
  /\ rejection_count' = rejection_count + (IF callers[c].v.accepted THEN 0 ELSE 1)
  /\ UNCHANGED <<signal, portfolio, validation_count, outcome, result>>
  /\ UNCHANGED <<btVars, utilVars>>

RiskCallsNext == \E c \in Callers : Call(c) \/ Check(c) \/ Return(c)

SpecRiskCalls == RiskCallsInit /\ [][RiskCallsNext]_vars

\* ------------------------------------------------------------------------
\* validate and reset_stats called one after the other on one RiskManager
\* ------------------------------------------------------------------------
RiskStatsInit == RiskIdle /\ BacktestIdle /\ UtilIdle

\* the requests of the calls: accepted, below the confidence minimum, HOLD,
\* and without a stop loss
StatsRequests ==
  CallRequests \cup { [SoundRequest EXCEPT !.signal_type = Some("HOLD")],
                      [SoundRequest EXCEPT !.stop_loss = None] }

\* one call of validate, from entry to return or raise
ValidateCall ==
  /\ validation_count < MaxCalls
  /\ \E input \in [signal : StatsRequests, portfolio : CallPortfolios] :
       /\ signal' = input.signal
       /\ portfolio' = input.portfolio
       /\ Finish(ValidateBody(input.signal, input.portfolio))
  /\ UNCHANGED callers
  /\ UNCHANGED <<btVars, utilVars>>

\* RiskManager.reset_stats
reset_stats ==
  /\ validation_count' = 0
  /\ acceptance_count' = 0
  /\ rejection_count' = 0
  /\ outcome' = "reset"
  /\ UNCHANGED <<signal, portfolio, result, callers>>
  /\ UNCHANGED <<btVars, utilVars>>

RiskStatsNext == ValidateCall \/ reset_stats

SpecRiskStats == RiskStatsInit /\ [][RiskStatsNext]_vars

BacktestInit ==
  /\ RiskIdle
  /\ UtilIdle
  /\ Constructed
  /\ \E input \in WellFormedInputs \cup LaterInputs :
       /\ predictions = input.predictions
       /\ prices = input.prices
  /\ pc = "called"
  /\ calls = 1

\* the engine as run's steps see it
Engine ==
  [ positions |-> positions, trades |-> trades, equity_curve |-> equity_curve,
    dates |-> dates, capital |-> current_capital, opened |-> opened, reads |-> reads ]

Commit(e) ==
  /\ positions' = e.positions
  /\ trades' = e.trades
  /\ current_capital' = e.capital
  /\ opened' = e.opened
  /\ reads' = e.reads

CurrentDate == UniqueDates(predictions.rows)[day_idx + 1]

\* run up to the day loop (lines 120-135)
EnterAs(vp, vq, e) ==
  /\ Commit(e)
  /\ equity_curve' = e.equity_curve
  /\ dates' = e.dates
  /\ predictions' = IF vp.raised THEN predictions ELSE vp.frame
  /\ pc' = IF vp.raised \/ vq.raised THEN "ValueError"
           ELSE IF vp.frame.rows = <<>> THEN "close_all" ELSE "update"

Enter ==
  /\ pc = "called"
  /\ EnterAs(_validate_predictions(predictions), _validate_prices(prices),
             Entered(Engine, _validate_predictions(predictions),
                     _validate_prices(prices), config))
  /\ day_idx' = 0
  /\ UNCHANGED <<config, prices, summary, at_entry, calls>>
  /\ UNCHANGED <<riskVars, utilVars>>

\* the day loop's call of _update_positions (lines 138-153)
UpdatePositions ==
  /\ pc = "update"
  /\ Commit(_update_positions(Engine, CurrentDate,
                              DayRows(predictions.rows, CurrentDate),
                              Historical(prices.rows, CurrentDate), config))
  /\ pc' = "execute"
  /\ UNCHANGED <<config, predictions, prices, equity_curve, dates, summary,
                 day_idx, at_entry, calls>>
  /\ UNCHANGED <<riskVars, utilVars>>

\* the day loop's call of _execute_signals on a rebalance day (lines 155-162)
ExecuteSignals ==
  /\ pc = "execute"
  /\ IF IsRebalanceDay(day_idx, config)
       THEN Commit(_execute_signals(Engine, CurrentDate,
                                    DayRows(predictions.rows, CurrentDate),
                                    DayRows(prices.rows, CurrentDate), config))
       ELSE UNCHANGED <<positions, trades, current_capital, opened, reads>>
  /\ pc' = "record"
  /\ UNCHANGED <<config, predictions, prices, equity_curve, dates, summary,
                 day_idx, at_entry, calls>>
  /\ UNCHANGED <<riskVars, utilVars>>

\* the day's equity sample (lines 164-166), and the loop's next iteration
RecordEquity ==
  /\ pc = "record"
  /\ equity_curve' = Append(equity_curve, current_capital)
  /\ dates' = Append(dates, CurrentDate)
  /\ day_idx' = day_idx + 1
  /\ pc' = IF day_idx + 1 < Len(UniqueDates(predictions.rows)) THEN "update"
           ELSE "close_all"
  /\ UNCHANGED <<config, predictions, prices, positions, trades, summary,
                 current_capital, opened, reads, at_entry, calls>>
  /\ UNCHANGED <<riskVars, utilVars>>

\* self.summary as far as the model follows it (lines 174-177)
Summary(metrics, final_capital, cfg) ==
  Some([ final_capital |-> final_capital,
         total_return |-> QDiv(QSub(final_capital, cfg.initial_capital),
                               cfg.initial_capital),
         num_trades |-> metrics.num_trades,
         max_drawdown |-> metrics.max_drawdown,
         win_rate |-> metrics.win_rate,
         profit_factor |-> metrics.profit_factor ])

\* run after the day loop (lines 168-192): unique_dates[-1] of no dates is an
\* IndexError, and so is the baseline's prices['ticker'].iloc[0] (line 514)
\* of a prices table without rows
CloseOutAs(e) ==
  /\ Commit(e)
  /\ summary' = Summary(_calculate_metrics(equity_curve, e.trades), e.capital, config)
  /\ pc' = IF prices.rows = <<>> THEN "IndexError" ELSE "returned"

LastDate == UniqueDates(predictions.rows)[Len(UniqueDates(predictions.rows))]

CloseOut ==
  /\ pc = "close_all"
  /\ IF predictions.rows = <<>>
       THEN /\ pc' = "IndexError"
            /\ UNCHANGED <<positions, trades, current_capital, opened, reads, summary>>
       ELSE CloseOutAs(_close_all_positions(Engine, LastDate,
                                          DayRows(prices.rows, LastDate), config))
  /\ UNCHANGED <<config, predictions, prices, equity_curve, dates, day_idx,
                 at_entry, calls>>
  /\ UNCHANGED <<riskVars, utilVars>>

\* a further call of run on the same engine
RunAgain ==
  /\ pc \in {"returned", "ValueError", "IndexError"}
  /\ calls < MaxRuns
  /\ \E input \in LaterInputs :
       /\ predictions' = input.predictions
       /\ prices' = input.prices
  /\ at_entry' = [positions |-> positions, trades |-> trades,
                equity_curve |-> equity_curve]
  /\ calls' = calls + 1
  /\ pc' = "called"
  /\ UNCHANGED <<config, positions, trades, equity_curve, dates, summary,
                 current_capital, day_idx, opened, reads>>
  /\ UNCHANGED <<riskVars, utilVars>>

BacktestNext ==
  \/ Enter
  \/ UpdatePositions
  \/ ExecuteSignals
  \/ RecordEquity
  \/ CloseOut
  \/ RunAgain

SpecBacktest == BacktestInit /\ [][BacktestNext]_vars

\* ------------------------------------------------------------------------
\* The backtest on constant prices, with and without transaction costs
\* ------------------------------------------------------------------------
\* BacktestConfig(transaction_cost=0.0)
CostFreeConfig == [BacktestConfig EXCEPT !.transaction_cost = QZero]

\* BacktestConfig(transaction_cost=2**-60)
TinyCostConfig == [BacktestConfig EXCEPT !.transaction_cost = Scaled(QOne, -60)]

\* the well-formed inputs whose close prices are all 1
FlatInputs ==
  { input \in WellFormedInputs :
      \A i \in DOMAIN input.prices.rows : input.prices.rows[i].close_price = 1 }

FlatInit ==
  /\ RiskIdle
  /\ UtilIdle
  /\ \E cfg \in {BacktestConfig, CostFreeConfig, TinyCostConfig} : ConstructedWith(cfg)
  /\ \E input \in FlatInputs :
       /\ predictions = input.predictions
       /\ prices = input.prices
  /\ pc = "called"
  /\ calls = 1

SpecFlatPrices == FlatInit /\ [][BacktestNext]_vars

\* ------------------------------------------------------------------------
\* The Backtest Simulator with a confidence threshold above 0.5
\* ------------------------------------------------------------------------
\* BacktestConfig(min_confidence=...) above the confidence at which the
\* position size becomes positive
StrictConfig == [BacktestConfig EXCEPT !.min_confidence = Frac(7, 8)]

\* a confidence above 1, which _validate_predictions lets through
OverconfidentInputs ==
  { [predictions |->
       [columns |-> PredictionColumns,
        rows |-> PredictionRows("AAPL", 1, <<[signal |-> 1, confidence |-> Frac(3, 2)]>>)
                 \o PredictionRows("AAPL", 2, <<[signal |-> 0, confidence |-> QOne]>>)],
     prices |-> [columns |-> PriceColumns,
                 rows |-> <<[date |-> 1, ticker |-> "AAPL", close_price |-> 1],
                            [date |-> 2, ticker |-> "AAPL", close_price |-> 2]>>]] }

StrictInit ==
  /\ RiskIdle
  /\ UtilIdle
  /\ ConstructedWith(StrictConfig)
  /\ \E input \in WellFormedInputs \cup OverconfidentInputs :
       /\ predictions = input.predictions
       /\ prices = input.prices
  /\ pc = "called"
  /\ calls = 1

SpecStrictConfidence == StrictInit /\ [][BacktestNext]_vars

\* ------------------------------------------------------------------------
\* The Model Registry: register_version and promote_version
\* ------------------------------------------------------------------------
RegistryInit == RiskIdle /\ BacktestIdle /\ UtilIdle

\* how a call on the registry ended: raised is None on a return
Ended(op, version_id, target_status, raised) ==
  Some([op |-> op, version_id |-> version_id, target_status |-> target_status,
        raised |-> raised])

\* ModelRegistry.register_version
register_version(version_id) ==
  /\ IF versions[version_id] # None
       THEN /\ registry_call' = Ended("register_version", version_id, EXPERIMENTAL,
                                      Some("ValueError"))
            /\ UNCHANGED <<versions, versions_file>>
       ELSE /\ versions' = [versions EXCEPT
                              ![version_id] = Some(ModelVersion(version_id, EXPERIMENTAL))]
            /\ versions_file' = Some(Saved(versions'))
            /\ registry_call' = Ended("register_version", version_id, EXPERIMENTAL, None)
  /\ UNCHANGED <<riskVars, btVars, retryVars>>

\* ModelRegistry.promote_version
promote_version(version_id, target_status) ==
  /\ IF versions[version_id] = None
       THEN /\ registry_call' = Ended("promote_version", version_id, target_status,
                                      Some("ValueError"))
            /\ UNCHANGED <<versions, versions_file>>
       ELSE IF target_status \notin valid_transitions(Val(versions[version_id]).status)
       THEN /\ registry_call' = Ended("promote_version", version_id, target_status,
                                      Some("ValueError"))
            /\ UNCHANGED <<versions, versions_file>>
       ELSE /\ versions' = [versions EXCEPT
                              ![version_id] = Some([Val(@) EXCEPT !.status = target_status])]
            /\ versions_file' = Some(Saved(versions'))
            /\ registry_call' = Ended("promote_version", version_id, target_status, None)
  /\ UNCHANGED <<riskVars, btVars, retryVars>>

RegistryNext ==
  \E version_id \in VersionIds :
    \/ register_version(version_id)
    \/ \E target_status \in VersionStatus : promote_version(version_id, target_status)

SpecRegistry == RegistryInit /\ [][RegistryNext]_vars

\* ------------------------------------------------------------------------
\* retry_with_backoff: the wrapper around one function
\* ------------------------------------------------------------------------
\* the wrapper is entered: the loop is at its first attempt, nothing is done yet.
\* has_on_retry: whether the decorator was given an on_retry callback.
\* invocations, on_retry_calls and sleeps count what the call has done;
\* on_retry_args and slept are the callback's arguments and the delay slept since
\* the last invocation of the function (None: no callback, no sleep since then)
Entered_wrapper(has_on_retry) ==
  [ pc |-> "try", attempt |-> 0, last_exception |-> None,
    has_on_retry |-> has_on_retry,
    invocations |-> 0, on_retry_calls |-> 0, sleeps |-> 0,
    on_retry_args |-> None, slept |-> None,
    returned |-> None, raised |-> None ]

RetryInit ==
  /\ RiskIdle /\ BacktestIdle /\ RegistryIdle
  /\ retry_config \in RetryConfigs
  /\ wrapper \in {Some(Entered_wrapper(has_on_retry)) : has_on_retry \in BOOLEAN}
  /\ delay_call = None

\* func(*args, **kwargs) is invoked
Invoked(w) ==
  [w EXCEPT !.invocations = @ + 1, !.on_retry_args = None, !.slept = None]

\* the except clause up to its two raise statements
M_Except_RetryEveryError(w) ==
  IF w.attempt >= retry_config.max_retries
    THEN [w EXCEPT !.pc = "raised", !.raised = w.last_exception]
  ELSE [w EXCEPT !.pc = "backoff"]

Except(w) ==
  IF ~should_retry(Val(w.last_exception))
    THEN [w EXCEPT !.pc = "raised", !.raised = w.last_exception]
  ELSE IF w.attempt >= retry_config.max_retries
    THEN [w EXCEPT !.pc = "raised", !.raised = w.last_exception]
  ELSE [w EXCEPT !.pc = "backoff"]

\* the for statement takes the next attempt of range(max_retries + 1), or the
\* loop is over and the statement after it raises
NextAttempt(w) ==
  IF w.attempt + 1 <= retry_config.max_retries
    THEN [w EXCEPT !.attempt = @ + 1, !.pc = "try"]
    ELSE [w EXCEPT !.pc = "raised",
                   !.raised = IF w.last_exception # None THEN w.last_exception
                              ELSE Some(Error("RuntimeError", None, None, {}))]

\* try: return func(*args, **kwargs), where func returns
InvokeReturns ==
  /\ wrapper # None
  /\ Val(wrapper).pc = "try"
  /\ wrapper' = Some([Invoked(Val(wrapper)) EXCEPT
                        !.pc = "returned", !.returned = Some(Val(wrapper).attempt)])
  /\ UNCHANGED <<retry_config, delay_call, riskVars, btVars, registryVars>>

\* try: return func(*args, **kwargs), where func raises e: the except clause
\* sets last_exception and raises or goes on to back off
InvokeRaises ==
  /\ wrapper # None
  /\ Val(wrapper).pc = "try"
  /\ \E e \in Errors :
       wrapper' = Some(Except([Invoked(Val(wrapper)) EXCEPT !.last_exception = Some(e)]))
  /\ UNCHANGED <<retry_config, delay_call, riskVars, btVars, registryVars>>

\* the rest of the except clause: delay = config.get_delay(attempt), on_retry
\* when given, time.sleep(delay) (await asyncio.sleep(delay) in the async
\* wrapper). The delay is recorded as the get_delay call that produced it: its
\* retry_count and the hash h it drew (0 when the configuration has no jitter
\* and no hash is taken)
Slept(w, h) ==
  LET delay == [retry_count |-> w.attempt, h |-> h]
  IN  [w EXCEPT !.on_retry_calls = IF w.has_on_retry THEN @ + 1 ELSE @,
                !.on_retry_args = IF w.has_on_retry
                                    THEN Some([attempt |-> w.attempt,
                                               exception |-> Val(w.last_exception),
                                               delay |-> delay])
                                    ELSE @,
                !.sleeps = @ + 1,
                !.slept = Some(delay)]

\* the wrapper backs off and the loop takes its next attempt
BackOff ==
  /\ wrapper # None
  /\ Val(wrapper).pc = "backoff"
  /\ \E h \in IF retry_config.jitter THEN JitterHashes ELSE {0} :
       wrapper' = Some(NextAttempt(Slept(Val(wrapper), h)))
  /\ UNCHANGED <<retry_config, delay_call, riskVars, btVars, registryVars>>

RetryNext == InvokeReturns \/ InvokeRaises \/ BackOff

SpecRetry == RetryInit /\ [][RetryNext]_vars

\* the scheduling of a single thread: the wrapper's next statement is executed
SpecRetryFair == SpecRetry /\ WF_vars(RetryNext)

\* ------------------------------------------------------------------------
\* RetryConfig.get_delay called on its own
\* ------------------------------------------------------------------------
MaxRetryCount == 7

DelayInit ==
  /\ RiskIdle /\ BacktestIdle /\ RegistryIdle
  /\ retry_config \in RetryConfigs
  /\ wrapper = None
  /\ delay_call = None

GetDelay ==
  /\ \E retry_count \in 0..MaxRetryCount, h \in JitterHashes :
       delay_call' = Some([retry_count |-> retry_count,
                           delay |-> get_delay(retry_config, retry_count, h)])
  /\ UNCHANGED <<retry_config, wrapper, riskVars, btVars, registryVars>>

DelayNext == GetDelay

SpecDelay == DelayInit /\ [][DelayNext]_vars


\* ========================================================================
\* Properties of the Risk Validation Gate
\* ========================================================================

R == Val(result)

Reason == IF IsNone(R.rejection_reason) THEN "none" ELSE Val(R.rejection_reason)

\* Field validity as the documentation states it: every required field is
\* present, confidence is within [0, 1], every price is strictly positive.
FieldsValid(s) ==
  /\ ~IsNone(s.ticker) /\ ~IsNone(s.signal_type) /\ ~IsNone(s.confidence)
  /\ ~IsNone(s.entry_price) /\ ~IsNone(s.target_price) /\ ~IsNone(s.stop_loss)
  /\ Val(s.confidence) >= 0 /\ Val(s.confidence) <= 100
  /\ Val(s.entry_price) > 0 /\ Val(s.target_price) > 0 /\ Val(s.stop_loss) > 0

IsBuy(s) == Upper(Val(s.signal_type)) = "BUY"

IsSell(s) == Upper(Val(s.signal_type)) = "SELL"

PriceOrderingHolds(s) ==
  /\ IsBuy(s) => (Val(s.stop_loss) < Val(s.entry_price)
                  /\ Val(s.entry_price) < Val(s.target_price))
  /\ IsSell(s) => (Val(s.target_price) < Val(s.entry_price)
                   /\ Val(s.entry_price) < Val(s.stop_loss))

ConfidenceBelowMinimum(s) ==
  ~IsNone(s.confidence) /\ Val(s.confidence) >= 0 /\ Val(s.confidence) < MIN_CONFIDENCE

\* C1 (as stated): every request with confidence below 0.70 (here: within
\* [0, 0.70)) is rejected with CONFIDENCE_TOO_LOW, whatever its other fields
\* and the portfolio.
C1_LowConfidenceAlwaysConfidenceTooLow ==
  (outcome # "called" /\ ConfidenceBelowMinimum(signal))
    => (outcome = "returned" /\ ~R.passed /\ Reason = CONFIDENCE_TOO_LOW)

\* C1 (amended): a request that passes field validity and has confidence below
\* 0.70 is rejected with CONFIDENCE_TOO_LOW, whatever its signal type, its
\* price ordering and the portfolio.
C1_ValidLowConfidenceRejected ==
  (outcome # "called" /\ FieldsValid(signal) /\ ConfidenceBelowMinimum(signal))
    => (outcome = "returned" /\ ~R.passed /\ Reason = CONFIDENCE_TOO_LOW)

\* a low-confidence request that also breaks price ordering, on a full
\* portfolio in drawdown, rejected for its confidence
C1_Witness ==
  /\ outcome = "returned"
  /\ FieldsValid(signal) /\ ConfidenceBelowMinimum(signal)
  /\ ~PriceOrderingHolds(signal)
  /\ portfolio.current_positions >= MAX_CONCURRENT_POSITIONS
  /\ portfolio.portfolio_drawdown_pct > MAX_PORTFOLIO_DRAWDOWN_PCT
  /\ Reason = CONFIDENCE_TOO_LOW

\* The seven checks, each as a predicate of the inputs alone (a check past
\* field validity is defined on requests whose fields are valid).
CheckFails(k, s, p) ==
  CASE k = 1 -> ~FieldsValid(s)
    [] k = 2 -> FieldsValid(s) /\ Val(s.confidence) < MIN_CONFIDENCE
    [] k = 3 -> FieldsValid(s) /\ ~PriceOrderingHolds(s)
    [] k = 4 -> FieldsValid(s)
                /\ (RiskDistance(s) <= 0
                    \/ RewardDistance(s) < MIN_RISK_REWARD_RATIO * RiskDistance(s))
    [] k = 5 -> FieldsValid(s) /\ p.portfolio_value # 0
                /\ FLess(MAX_POSITION_SIZE,
                         _calculate_risk_metrics(s, p, NewResult).result.position_size_pct)
    [] k = 6 -> p.current_positions >= MAX_CONCURRENT_POSITIONS
    [] k = 7 -> p.portfolio_drawdown_pct > MAX_PORTFOLIO_DRAWDOWN_PCT

\* the earliest failing check, 0 if none fails
FirstFailing(s, p) ==
  LET failing == {k \in 1..7 : CheckFails(k, s, p)}
  IN  IF failing = {} THEN 0 ELSE CHOOSE k \in failing : \A j \in failing : k <= j

ReasonOfCheck(k) ==
  CASE k = 1 -> MISSING_REQUIRED_FIELDS
    [] k = 2 -> CONFIDENCE_TOO_LOW
    [] k = 3 -> INVALID_PRICE_LEVELS
    [] k = 4 -> RISK_REWARD_UNFAVORABLE
    [] k = 5 -> POSITION_TOO_LARGE
    [] k = 6 -> MAX_POSITIONS_EXCEEDED
    [] k = 7 -> PORTFOLIO_IN_DRAWDOWN
    [] OTHER -> "none"

\* the rules with an audit note of their own, in check order, and the rule
\* each check's failure note names
ConfirmedRules == <<"confidence", "price_levels", "risk_reward", "position_sizing">>

FailureRule(k) ==
  <<"required_fields", "confidence", "price_levels", "risk_reward",
    "position_sizing", "max_positions", "drawdown">>[k]

\* the notes of a call whose earliest failing check is k: one confirmation per
\* check passed before it, then its failure note, and nothing after
ExpectedNotes(k) ==
  IF k = 0
  THEN [i \in 1..4 |-> Note(TRUE, ConfirmedRules[i])]
       \o <<Note(TRUE, "portfolio_constraints"), Note(TRUE, "all")>>
  ELSE LET before == IF k <= 2 THEN 0 ELSE IF k >= 6 THEN 4 ELSE k - 2
       IN  [i \in 1..before |-> Note(TRUE, ConfirmedRules[i])]
           \o <<Note(FALSE, FailureRule(k))>>

\* C2: validate applies the checks in the order field validity, confidence,
\* price ordering, risk/reward, position size, position count, drawdown, and
\* stops at the first that fails: the result's rejection_reason is that of the
\* earliest failing check and its audit notes end with that check's note.
C2_FirstFailingCheckDecides ==
  outcome = "returned" =>
    LET k == FirstFailing(signal, portfolio) IN
      /\ R.passed = (k = 0)
      /\ Reason = ReasonOfCheck(k)
      /\ R.validation_notes = ExpectedNotes(k)

\* several checks fail at once and the earliest one is reported
C2_Witness ==
  /\ outcome = "returned"
  /\ Reason = INVALID_PRICE_LEVELS
  /\ CheckFails(4, signal, portfolio)
  /\ CheckFails(6, signal, portfolio)
  /\ CheckFails(7, signal, portfolio)
  /\ Len(R.validation_notes) = 2

\* C3: for a BUY or SELL request with valid fields and portfolio_value > 0,
\* passed = true if and only if confidence >= 0.70, the price ordering of the
\* direction holds, reward / risk >= 2.0, current_positions < 5 and
\* portfolio_drawdown_pct <= 15.
C3_PassedIffAllRulesHold ==
  ( /\ outcome = "returned"
    /\ FieldsValid(signal)
    /\ IsBuy(signal) \/ IsSell(signal)
    /\ portfolio.portfolio_value > 0 )
  => ( R.passed <=>
         /\ Val(signal.confidence) >= MIN_CONFIDENCE
         /\ PriceOrderingHolds(signal)
         /\ RewardDistance(signal) >= MIN_RISK_REWARD_RATIO * RiskDistance(signal)
         /\ portfolio.current_positions < MAX_CONCURRENT_POSITIONS
         /\ portfolio.portfolio_drawdown_pct <= MAX_PORTFOLIO_DRAWDOWN_PCT )

\* C4: validate never raises: every call ends by returning a result.
C4_ValidateAlwaysReturns == outcome # "raised"

\* ========================================================================
\* Properties of the Backtest Simulator
\* ========================================================================

\* run is between its validation and its end, or has ended normally or at
\* the baseline: the engine's trades and positions are those of this call
InRun == pc \in {"update", "execute", "record", "close_all", "returned", "IndexError"}

RowSet(rows) == {rows[i] : i \in DOMAIN rows}

DistinctDates == {r.date : r \in RowSet(predictions.rows)}

RECURSIVE SumOver(_, _)
SumOver(qs, i) == IF i = 0 THEN QZero ELSE QAdd(SumOver(qs, i - 1), qs[i])

\* C5: at most one open position per ticker, and an opening attempt for a
\* ticker that has an open position is a no-op: every position ever created
\* in the run is either still open or was closed into exactly one trade record
\* (none was replaced, none was paid for twice), and each open position is the
\* one its ticker's latest opening created, with the size it was created with.
C5_OnePositionPerTicker ==
  /\ \A i, j \in DOMAIN positions :
       positions[i].ticker = positions[j].ticker => i = j
  /\ Len(opened) = Len(trades) + Len(positions)
  /\ \A i \in DOMAIN positions :
       \E k \in DOMAIN opened :
         /\ opened[k].ticker = positions[i].ticker
         /\ opened[k].date = positions[i].entry_date
         /\ opened[k].position_value = positions[i].position_value
         /\ opened[k].confidence = positions[i].confidence
         /\ \A l \in DOMAIN opened : opened[l].ticker = opened[k].ticker => l <= k

\* the rows of the current day that would open a position were none held
OpeningRows ==
  { r \in RowSet(DayRows(predictions.rows, CurrentDate)) :
      /\ r.signal # 0
      /\ ~QLess(r.confidence, config.min_confidence)
      /\ QLess(Frac(1, 2), r.confidence)
      /\ \E q \in RowSet(prices.rows) : q.ticker = r.ticker /\ q.date = CurrentDate }

\* a rebalance day has just been executed on which two rows asked to open a
\* ticker whose position has been open since an earlier day
C5_Witness ==
  /\ pc = "record"
  /\ day_idx % config.rebalance_days = 0
  /\ \E i \in DOMAIN positions :
       /\ positions[i].entry_date < CurrentDate
       /\ Cardinality({r \in OpeningRows : r.ticker = positions[i].ticker}) >= 2

\* the price rows of a ticker dated at or before d
RowsUpTo(ticker, d) == {q \in RowSet(prices.rows) : q.ticker = ticker /\ q.date <= d}

LatestUpTo(ticker, d) ==
  CHOOSE q \in RowsUpTo(ticker, d) : \A o \in RowsUpTo(ticker, d) : o.date <= q.date

\* C6: no step taken for simulated date D reads a price row dated after D;
\* every entry price (of a trade record and of an open position) is the close
\* of the ticker's price row dated entry_date, and every exit price is the
\* close of the ticker's latest price row dated at or before exit_date (the
\* end-of-run close reads the row dated exit_date, which is that row).
C6_NoLookahead ==
  InRun =>
    /\ \A rd \in reads : rd[2] <= rd[1]
    /\ \A i \in DOMAIN trades :
         /\ \E q \in RowSet(prices.rows) :
              /\ q.ticker = trades[i].ticker /\ q.date = trades[i].entry_date
              /\ trades[i].entry_price = Int2Q(q.close_price)
         /\ RowsUpTo(trades[i].ticker, trades[i].exit_date) # {}
         /\ trades[i].exit_price =
              Int2Q(LatestUpTo(trades[i].ticker, trades[i].exit_date).close_price)
    /\ \A i \in DOMAIN positions :
         \E q \in RowSet(prices.rows) :
           /\ q.ticker = positions[i].ticker /\ q.date = positions[i].entry_date
           /\ positions[i].entry_price = Int2Q(q.close_price)

\* a position was closed on a day without a price row for its ticker, at the
\* earlier price, while the table holds a later row with another price
C6_Witness ==
  /\ pc = "returned"
  /\ \E i \in DOMAIN trades :
       /\ \A q \in RowsUpTo(trades[i].ticker, trades[i].exit_date) :
            q.date < trades[i].exit_date
       /\ \E q \in RowSet(prices.rows) :
            /\ q.ticker = trades[i].ticker /\ q.date > trades[i].exit_date
            /\ Int2Q(q.close_price) # trades[i].exit_price

\* C7: when run returns, no position remains open.
C7_NoPositionOpenAfterRun == pc = "returned" => positions = <<>>

\* the structural errors of the two tables
Malformed(p, q) ==
  \/ ~({"date", "ticker", "signal"} \subseteq p.columns)
  \/ \E r \in RowSet(p.rows) : r.signal \notin {-1, 0, 1}
  \/ ~({"date", "ticker", "close_price"} \subseteq q.columns)
  \/ \E r \in RowSet(q.rows) : r.close_price <= 0

\* C8: a call of run with a structural input error raises, and leaves the
\* open positions, the trade list and the equity curve as they were at the
\* call's entry.
C8_StructuralErrorsAbort ==
  /\ (pc \notin {"idle", "called"} /\ Malformed(predictions, prices))
       => pc = "ValueError"
  /\ pc = "ValueError" =>
       /\ positions = at_entry.positions
       /\ trades = at_entry.trades
       /\ equity_curve = at_entry.equity_curve

\* a malformed call on an engine whose earlier run left trades, an equity
\* curve and an open position
C8_Witness ==
  /\ pc = "ValueError"
  /\ calls = 2
  /\ at_entry.positions # <<>>
  /\ at_entry.trades # <<>>
  /\ Len(at_entry.equity_curve) > 2
  /\ positions = at_entry.positions

Costs == [i \in DOMAIN opened |-> QMul(config.transaction_cost, opened[i].position_value)]

Pnls == [i \in DOMAIN trades |-> trades[i].pnl]

LedgerCapital ==
  QAdd(QSub(config.initial_capital, SumOver(Costs, Len(opened))),
       SumOver(Pnls, Len(trades)))

\* C9: the running capital is the initial capital, less transaction_cost x
\* position_value for every position opened, plus the pnl of every trade
\* record; and so is final_capital when run has returned.
C9_CapitalLedger ==
  InRun =>
    /\ current_capital = LedgerCapital
    /\ pc = "returned" => Val(summary).final_capital = LedgerCapital

\* a run has returned with a winning and a losing trade
C9_Witness ==
  /\ pc = "returned"
  /\ Len(opened) >= 2
  /\ \E i \in DOMAIN trades : QLess(QZero, trades[i].pnl)
  /\ \E i \in DOMAIN trades : QLess(trades[i].pnl, QZero)
  /\ Val(summary).final_capital # config.initial_capital

\* C10: the equity curve holds the initial capital and then one sample per
\* simulated day, taken in strictly ascending date order after the day's
\* closes and opens; after a run it has (number of distinct prediction dates
\* + 1) samples.
C10_EquityCurveSamples ==
  InRun =>
    /\ equity_curve[1] = config.initial_capital
    /\ Len(equity_curve) = Len(dates) + 1
    /\ \A i, j \in DOMAIN dates : i < j => dates[i] < dates[j]
    /\ RowSet(dates) \subseteq DistinctDates
    /\ (pc \in {"update", "close_all"} /\ dates # <<>>)
         => equity_curve[Len(equity_curve)] = current_capital
    /\ pc \in {"returned", "IndexError"}
         => Len(equity_curve) = Cardinality(DistinctDates) + 1

\* a run has returned whose predictions hold several rows for one date, in an
\* order that is not the order of the dates, and whose samples differ
C10_Witness ==
  /\ pc = "returned"
  /\ Len(predictions.rows) > Cardinality(DistinctDates)
  /\ \E i, j \in DOMAIN predictions.rows :
       i < j /\ predictions.rows[i].date > predictions.rows[j].date
  /\ Len(equity_curve) = Cardinality(DistinctDates) + 1
  /\ Len(equity_curve) >= 3
  /\ equity_curve[2] # equity_curve[3]

\* C11: every trade's shares are the position value of its opening divided by
\* the entry price; its pnl is shares*exit*(1-cost) - shares*entry*(1+cost)
\* for a long and shares*entry*(1-cost) - shares*exit*(1+cost) for a short;
\* its pnl_pct is the pnl divided by the position value of its opening.
OpeningOf(trade) ==
  CHOOSE o \in RowSet(opened) : o.ticker = trade.ticker /\ o.date = trade.entry_date

Proceeds(shares, price, cost) == QMul(QMul(shares, price), QSub(QOne, cost))

Outlay(shares, price, cost) == QMul(QMul(shares, price), QAdd(QOne, cost))

FollowsCloseFormulas(t, value, cost) ==
  /\ t.shares = QDiv(value, t.entry_price)
  /\ t.entry_signal = 1 =>
       t.pnl = QSub(Proceeds(t.shares, t.exit_price, cost),
                    Outlay(t.shares, t.entry_price, cost))
  /\ t.entry_signal = -1 =>
       t.pnl = QSub(Proceeds(t.shares, t.entry_price, cost),
                    Outlay(t.shares, t.exit_price, cost))
  /\ t.entry_signal \in {1, -1}
  /\ t.pnl_pct = QDiv(t.pnl, value)

C11_TradePnlFormulas ==
  InRun =>
    \A i \in DOMAIN trades :
      /\ \E o \in RowSet(opened) :
            o.ticker = trades[i].ticker /\ o.date = trades[i].entry_date
      /\ FollowsCloseFormulas(trades[i], OpeningOf(trades[i]).position_value,
                              config.transaction_cost)

C11_Witness ==
  /\ pc = "returned"
  /\ \E i, j \in DOMAIN trades :
        /\ trades[i].entry_signal = 1 /\ trades[j].entry_signal = -1
        /\ trades[i].exit_price # trades[i].entry_price
        /\ trades[j].exit_price # trades[j].entry_price

\* C12: validate modifies neither the request nor the portfolio it is given,
\* and what it makes of them (an exception, or passed, rejection_reason, the
\* risk metrics and the notes) is the same for any two calls with the same
\* two inputs, whatever calls the shared manager served before and however
\* the calls interleave.
Answered(c) == callers[c].pc \in {"checked", "returned", "raised"}

RejectedBeforeMetrics ==
  Reason \in {MISSING_REQUIRED_FIELDS, CONFIDENCE_TOO_LOW, INVALID_PRICE_LEVELS}

C13_RiskMetricsBounded ==
  outcome = "returned" =>
    /\ (~RejectedBeforeMetrics /\ portfolio.portfolio_value > 0) =>
         /\ R.risk_dollars = FMulInt(MAX_RISK_PER_TRADE, portfolio.portfolio_value)
         /\ ~FLess(FMulInt(MAX_POSITION_SIZE, portfolio.portfolio_value),
                   R.position_size_dollars)
         /\ ~FLess(MAX_POSITION_SIZE, R.position_size_pct)
    /\ RejectedBeforeMetrics =>
         /\ R.risk_dollars = FZero
         /\ R.position_size_dollars = FZero
         /\ R.position_size_pct = FZero
         /\ R.risk_reward_ratio = NewResult.risk_reward_ratio

\* C14: a request that passes field validity, confidence, price ordering,
\* risk/reward and position size is rejected with MAX_POSITIONS_EXCEEDED when
\* current_positions >= 5, also when the drawdown is above 15% as well, and
\* with PORTFOLIO_IN_DRAWDOWN when current_positions < 5 and the drawdown is
\* above 15%.
PassesFirstFive(s, p) ==
  p.portfolio_value # 0 /\ \A k \in 1..5 : ~CheckFails(k, s, p)

C14_PositionCountBeforeDrawdown ==
  (outcome = "returned" /\ PassesFirstFive(signal, portfolio)) =>
    /\ portfolio.current_positions >= 5 =>
         (~R.passed /\ Reason = MAX_POSITIONS_EXCEEDED)
    /\ (portfolio.current_positions < 5 /\ portfolio.portfolio_drawdown_pct > 15) =>
         (~R.passed /\ Reason = PORTFOLIO_IN_DRAWDOWN)

C14_Witness ==
  /\ outcome = "returned"
  /\ PassesFirstFive(signal, portfolio)
  /\ portfolio.current_positions >= 5
  /\ portfolio.portfolio_drawdown_pct > 15
  /\ Reason = MAX_POSITIONS_EXCEEDED

\* C15: when a ticker has no price row dated D the run does not abort, and
\* the ticker is skipped on D: no position in it is opened on D and none is
\* closed on D.
HasPriceRow(ticker, d) ==
  \E q \in RowSet(prices.rows) : q.ticker = ticker /\ q.date = d

C15_GapDaySkipsTicker ==
  (pc \notin {"idle", "called"} /\ ~Malformed(predictions, prices)
     /\ predictions.rows # <<>>) =>
    /\ pc \notin {"ValueError", "IndexError"}
    /\ \A i \in DOMAIN opened : HasPriceRow(opened[i].ticker, opened[i].date)
    /\ \A i \in DOMAIN trades : HasPriceRow(trades[i].ticker, trades[i].exit_date)

\* the prediction rows of a ticker on the current day, in table order
TodaysRows(ticker) == TickerRows(DayRows(predictions.rows, CurrentDate), ticker)

\* the closing check has closed position p at the ticker's latest price dated
\* at or before the current day
ClosedToday(p) ==
  /\ ~Held(positions', p.ticker)
  /\ \E j \in DOMAIN trades' :
       /\ j > Len(trades)
       /\ trades'[j].ticker = p.ticker
       /\ trades'[j].entry_date = p.entry_date
       /\ trades'[j].exit_date = CurrentDate
       /\ trades'[j].exit_price = Int2Q(LatestUpTo(p.ticker, CurrentDate).close_price)

StaysOpen(p) ==
  /\ \E i \in DOMAIN positions' : positions'[i] = p
  /\ \A j \in DOMAIN trades' : j > Len(trades) => trades'[j].ticker # p.ticker

\* C16 (as stated): on every simulated day, each position open at the start
\* of the day whose ticker has a prediction row that day with a signal
\* different from the position's direction, or equal to 0, is closed that day
\* at the latest price dated at or before that day; every other position
\* stays open.
C16_ClosedOnAnyDifferingRow ==
  [][pc = "update" =>
       \A i \in DOMAIN positions :
         IF \E k \in DOMAIN TodaysRows(positions[i].ticker) :
              \/ TodaysRows(positions[i].ticker)[k].signal # positions[i].signal
              \/ TodaysRows(positions[i].ticker)[k].signal = 0
           THEN ClosedToday(positions[i])
           ELSE StaysOpen(positions[i])]_vars

\* C16 (amended): the row that decides is the ticker's first prediction row
\* of the day: the position is closed, at the latest price dated at or before
\* the day, when that row's signal differs from the position's direction or
\* is 0, and stays open when it equals the direction or the ticker has no
\* row that day.
C16_ClosedOnFirstRow ==
  [][pc = "update" =>
       \A i \in DOMAIN positions :
         IF /\ TodaysRows(positions[i].ticker) # <<>>
            /\ \/ TodaysRows(positions[i].ticker)[1].signal # positions[i].signal
               \/ TodaysRows(positions[i].ticker)[1].signal = 0
           THEN ClosedToday(positions[i])
           ELSE StaysOpen(positions[i])]_vars

\* the closing check of a day that is not a rebalance day has closed one
\* position, on a neutral row, and left another open
C16_Witness ==
  /\ pc = "execute"
  /\ day_idx % config.rebalance_days # 0
  /\ \E j \in DOMAIN trades :
       /\ trades[j].exit_date = CurrentDate
       /\ TodaysRows(trades[j].ticker)[1].signal = 0
  /\ \E i \in DOMAIN positions : positions[i].entry_date < CurrentDate

\* the index of date d among the ascending distinct prediction dates
DateIndex(d) == Cardinality({x \in DistinctDates : x < d})

OnCadence(d) == DateIndex(d) % config.rebalance_days = 0

\* C17: a position is opened only on a rebalance day: the entry date of every
\* position created, open or closed into a trade, has an index among the
\* ascending distinct prediction dates that is a multiple of rebalance_days;
\* a ticker whose position was closed on a day that is not a rebalance day
\* has no open position for the rest of that day, and its next position is
\* created on a later rebalance day.
C17_OpenedOnRebalanceDaysOnly ==
  InRun =>
    /\ \A i \in DOMAIN opened : OnCadence(opened[i].date)
    /\ \A i \in DOMAIN trades : OnCadence(trades[i].entry_date)
    /\ \A i \in DOMAIN positions : OnCadence(positions[i].entry_date)
    /\ \A i \in DOMAIN trades :
         ~OnCadence(trades[i].exit_date) =>
           /\ \A j \in DOMAIN opened :
                (opened[j].ticker = trades[i].ticker
                   /\ opened[j].date >= trades[i].exit_date)
                  => (opened[j].date > trades[i].exit_date /\ OnCadence(opened[j].date))
           /\ (pc \in {"execute", "record"} /\ trades[i].exit_date = CurrentDate)
                => ~Held(positions, trades[i].ticker)

\* a position closed on a day that is not a rebalance day, on which its
\* ticker had a row that opens on a rebalance day, and the ticker's next
\* position, created on the following rebalance day
C17_Witness ==
  /\ pc = "returned"
  /\ \E i, j \in DOMAIN trades :
       /\ trades[i].ticker = trades[j].ticker
       /\ ~OnCadence(trades[i].exit_date)
       /\ trades[j].entry_date > trades[i].exit_date
       /\ DateIndex(trades[j].entry_date) >= config.rebalance_days
       /\ \E r \in RowSet(predictions.rows) :
            /\ r.ticker = trades[i].ticker /\ r.date = trades[i].exit_date
            /\ r.signal = -trades[i].entry_signal /\ r.confidence = QOne
            /\ HasPriceRow(r.ticker, r.date)

\* the prediction rows of a ticker on date d, in table order
RowsOn(ticker, d) == TickerRows(DayRows(predictions.rows, d), ticker)

\* the ticker's predictions are one row a day, of a confidence above the
\* minimum, with a price row every day: direction s before day F, the
\* opposite direction from F on, F being a rebalance day after the first day
FlipsOn(ticker, F) ==
  /\ F \in DistinctDates /\ OnCadence(F) /\ DateIndex(F) > 0
  /\ \E s \in {1, -1} :
       \A d \in DistinctDates :
         /\ Len(RowsOn(ticker, d)) = 1
         /\ QLess(config.min_confidence, RowsOn(ticker, d)[1].confidence)
         /\ RowsOn(ticker, d)[1].signal = IF d < F THEN s ELSE -s
         /\ HasPriceRow(ticker, d)

\* on the day being simulated, position-closing trade t was followed by the
\* opening of the opposite position in the same ticker
ReopenedToday(t) ==
  \E i \in DOMAIN positions :
    /\ positions[i].ticker = t.ticker
    /\ positions[i].entry_date = CurrentDate
    /\ positions[i].signal = -t.entry_signal

FlippedToday(t) ==
  /\ t.exit_date = CurrentDate
  /\ t.entry_date < CurrentDate
  /\ TodaysRows(t.ticker)[1].signal = -t.entry_signal
  /\ QLess(config.min_confidence, TodaysRows(t.ticker)[1].confidence)
  /\ HasPriceRow(t.ticker, CurrentDate)

AscendingDates == \A i, j \in DOMAIN dates : i < j => dates[i] < dates[j]

TotalReturn == Val(summary).total_return

\* C19 (as stated): on constant prices a run with transaction_cost > 0 that
\* has opened a position ends with total_return < 0, and a run with
\* transaction_cost = 0 ends with total_return = 0; so the return of a run
\* with a positive cost is never above 0, the return of the cost-free run on
\* the same inputs.
C19_CostsAlwaysLoseOnFlatPrices ==
  pc = "returned" =>
    /\ QLess(QZero, config.transaction_cost) =>
         /\ opened # <<>> => QLess(TotalReturn, QZero)
         /\ ~QLess(QZero, TotalReturn)
    /\ config.transaction_cost = QZero => TotalReturn = QZero

\* the cost of the run's first opening lowers the capital it is taken from
FirstCostCounts ==
  /\ opened # <<>>
  /\ QLess(QSub(config.initial_capital,
                QMul(opened[1].position_value, config.transaction_cost)),
           config.initial_capital)

\* C19 (amended): on constant prices a run with transaction_cost > 0 ends
\* with total_return <= 0, and with total_return < 0 when it has opened a
\* position whose cost lowered the running capital (a cost below half the
\* spacing of the floats at the capital is lost to rounding); a run with
\* transaction_cost = 0 ends with total_return = 0.
C19_CostsNeverGainOnFlatPrices ==
  pc = "returned" =>
    /\ QLess(QZero, config.transaction_cost) =>
         /\ FirstCostCounts => QLess(TotalReturn, QZero)
         /\ ~QLess(QZero, TotalReturn)
    /\ config.transaction_cost = QZero => TotalReturn = QZero

\* a run with a positive cost has returned, having opened positions and
\* closed every one of them at the price it was opened at
C19_Witness ==
  /\ pc = "returned"
  /\ QLess(QZero, config.transaction_cost)
  /\ Len(trades) >= 2
  /\ positions = <<>>
  /\ \A i \in DOMAIN trades : trades[i].exit_price = trades[i].entry_price
  /\ QLess(TotalReturn, QZero)

\* C20: in every summary computed by a run max_drawdown <= 0, and when the
\* trade list is not empty profit_factor >= 0 and 0 <= win_rate <= 1.
C20_SummaryMetricsInRange ==
  summary # None =>
    /\ Val(summary).max_drawdown.kind # "nan"
    /\ ~XLess(XNum(QZero), Val(summary).max_drawdown)
    /\ Val(summary).num_trades > 0 =>
         /\ Val(summary).profit_factor.kind # "nan"
         /\ ~XLess(Val(summary).profit_factor, XNum(QZero))
         /\ ~QLess(Val(summary).win_rate, QZero)
         /\ ~QLess(QOne, Val(summary).win_rate)

\* ========================================================================
\* Properties of the Model Registry
\* ========================================================================
\* the transitions the claim allows, as pairs <<from, to>>
AllowedTransitions ==
  { <<"experimental", "staging">>, <<"experimental", "archived">>,
    <<"staging", "production">>, <<"staging", "experimental">>, <<"staging", "archived">>,
    <<"production", "staging">>, <<"production", "rollback">>,
    <<"archived", "experimental">> }

StatusOf(registry, v) == Val(registry[v]).status

WeakRow(row) == QLess(row.confidence, config.min_confidence) \/ row.signal = 0

AllRowsWeak ==
  \A i \in DOMAIN predictions.rows : WeakRow(predictions.rows[i])

\* C22: no position is opened from a prediction row whose confidence is
\* below min_confidence or whose signal is 0; a run whose prediction rows are
\* all such rows ends with no trade and with every equity sample and
\* final_capital equal to initial_capital.
C22_WeakRowsOpenNothing ==
  pc \in {"update", "execute", "record", "close_all", "returned", "IndexError"} =>
    /\ \A i \in DOMAIN opened :
         /\ ~WeakRow(opened[i])
         /\ \E j \in DOMAIN predictions.rows :
              /\ predictions.rows[j].ticker = opened[i].ticker
              /\ predictions.rows[j].date = opened[i].date
              /\ predictions.rows[j].signal = opened[i].signal
              /\ predictions.rows[j].confidence = opened[i].confidence
    /\ AllRowsWeak =>
         /\ opened = <<>> /\ positions = <<>> /\ trades = <<>>
         /\ \A i \in DOMAIN equity_curve : equity_curve[i] = config.initial_capital
         /\ pc = "returned" =>
              /\ Val(summary).final_capital = config.initial_capital
              /\ Val(summary).num_trades = 0

\* a returned run of weak rows only, one of them a priced row on the first
\* day that the position sizing alone would have opened
C22_Witness ==
  /\ pc = "returned"
  /\ calls = 1
  /\ AllRowsWeak
  /\ Len(equity_curve) >= 3
  /\ \E j \in DOMAIN predictions.rows :
       /\ predictions.rows[j].date = 1
       /\ predictions.rows[j].signal # 0
       /\ QLess(Frac(1, 2), predictions.rows[j].confidence)
       /\ HasPriceRow(predictions.rows[j].ticker, 1)
  /\ \E j \in DOMAIN predictions.rows : predictions.rows[j].signal = 0

\* clamp(x, lo, hi), for lo <= hi
Clamp(x, lo, hi) == IF QLess(x, lo) THEN lo ELSE IF QLess(hi, x) THEN hi ELSE x

\* capital * max_position_size
BaseSize(capital) == QMul(capital, config.max_position_size)

SizedAsClaimed(o) ==
  /\ QLess(QZero, o.position_value)
  /\ ~QLess(BaseSize(o.capital), o.position_value)
  /\ QLess(QZero, o.capital)
  /\ QLess(Frac(1, 2), o.confidence)
  /\ o.position_value =
       Clamp(QMul(QMul(BaseSize(o.capital), QSub(o.confidence, Frac(1, 2))), Int2Q(2)),
             QZero, BaseSize(o.capital))

\* what one pass of _execute_signals does to the running capital
CostOnlyWhenOpened ==
  (pc = "execute" /\ pc' = "record") =>
    IF Len(opened') = Len(opened)
      THEN current_capital' = current_capital /\ positions' = positions
    ELSE /\ opened'[Len(opened) + 1].capital = current_capital
         /\ current_capital' =
              QSub(opened'[Len(opened')].capital,
                   QMul(opened'[Len(opened')].position_value, config.transaction_cost))

ZeroCapitalDay ==
  /\ pc = "record"
  /\ current_capital = QZero
  /\ IsRebalanceDay(day_idx, config)
  /\ \E j \in DOMAIN predictions.rows :
       /\ predictions.rows[j].date = CurrentDate
       /\ ~WeakRow(predictions.rows[j])
       /\ HasPriceRow(predictions.rows[j].ticker, predictions.rows[j].date)
  /\ positions = <<>>

\* ========================================================================
\* Properties of the Risk Validation Gate, continued
\* ========================================================================
\* the positions of the failure notes in an audit trail
FailureNotes(notes) == {i \in DOMAIN notes : ~notes[i].ok}

\* the rules a passed result confirms, in check order, and the closing note
PassedTrail == <<"confidence", "price_levels", "risk_reward", "position_sizing",
                 "portfolio_constraints", "all">>

\* C24: every result validate returns is well formed: passed exactly when
\* rejection_reason is null; a rejected result has a non-empty message and
\* exactly one failure note, the last of its notes; a passed result's notes
\* are confirmations, one per check in check order, then the closing note.
C24_ResultWellFormed ==
  outcome = "returned" =>
    /\ R.passed <=> R.rejection_reason = None
    /\ ~R.passed =>
         /\ R.rejection_message # None
         /\ Len(Val(R.rejection_message)) > 0
         /\ FailureNotes(R.validation_notes) = {Len(R.validation_notes)}
    /\ R.passed =>
         /\ R.rejection_message = None
         /\ R.validation_notes = [i \in 1..6 |-> [ok |-> TRUE, rule |-> PassedTrail[i]]]

\* a passed result, returned
C24_Witness ==
  /\ outcome = "returned"
  /\ R.passed
  /\ Len(R.validation_notes) = 6

\* C25: after any sequence of validate and reset_stats calls on one
\* RiskManager validation_count = acceptance_count + rejection_count.
C25_CountersBalance ==
  validation_count = acceptance_count + rejection_count

\* C26: the position-size check never rejects: no call of validate with
\* portfolio_value > 0 returns POSITION_TOO_LARGE, and no call returns
\* RISK_TOO_LARGE.
C26_PositionCheckNeverRejects ==
  outcome = "returned" =>
    /\ portfolio.portfolio_value > 0 => Reason # POSITION_TOO_LARGE
    /\ Reason # RISK_TOO_LARGE

\* C27: a request whose signal_type is neither BUY nor SELL is never marked
\* passed: a result is passed only for a BUY request with stop_loss <
\* entry_price < target_price or a SELL request with target_price <
\* entry_price < stop_loss.
C27_PassedOnlyBuyOrSell ==
  (outcome = "returned" /\ R.passed) =>
    \/ /\ Upper(Val(signal.signal_type)) = "BUY"
       /\ Val(signal.stop_loss) < Val(signal.entry_price)
       /\ Val(signal.entry_price) < Val(signal.target_price)
    \/ /\ Upper(Val(signal.signal_type)) = "SELL"
       /\ Val(signal.target_price) < Val(signal.entry_price)
       /\ Val(signal.entry_price) < Val(signal.stop_loss)

\* C28: after run returns, final_capital is the last sample of the equity
\* curve, so that the curve and the metrics derived from it account for the
\* pnl of every trade record, those of the end-of-run close included.
C28_FinalCapitalIsLastSample ==
  pc = "returned" =>
    Val(summary).final_capital = equity_curve[Len(equity_curve)]

\* ------------------------------------------------------------------------
\* C29: a function wrapped by retry_with_backoff is invoked at most
\* max_retries + 1 times per call and the call always terminates. It returns
\* the first successful result; it re-raises at once, with no retry and no
\* sleep after the failing invocation, when should_retry says the error is not
\* transient; it re-raises the last error once max_retries retries have failed.
\* Before each retry, and only then, on_retry (when given) is called once and
\* the backoff delay is slept once: at every moment the number of sleeps and of
\* on_retry calls is the number of retries begun.
\* ------------------------------------------------------------------------
DelayOf(call) == get_delay(retry_config, call.retry_count, call.h)

Retries(w) == IF w.pc = "try" THEN w.invocations ELSE w.invocations - 1

Finished(w) == w.pc \in {"returned", "raised"}

WrapperAsClaimed(w) ==
  /\ w.invocations <= retry_config.max_retries + 1
  /\ w.sleeps = Retries(w)
  /\ w.on_retry_calls = IF w.has_on_retry THEN Retries(w) ELSE 0
  /\ w.pc = "try" => w.attempt = w.invocations
  /\ (w.pc = "try" /\ w.invocations > 0) =>
        /\ w.slept # None
        /\ Val(w.slept).retry_count = Retries(w) - 1
        /\ ~QLess(DelayOf(Val(w.slept)), QZero)
        /\ w.has_on_retry =>
              /\ w.on_retry_args # None
              /\ Val(w.on_retry_args).delay = Val(w.slept)
              /\ Val(w.on_retry_args).attempt = Retries(w) - 1
              /\ Val(w.on_retry_args).exception = Val(w.last_exception)
        /\ should_retry(Val(w.last_exception))
  /\ w.pc = "backoff" =>
        /\ should_retry(Val(w.last_exception))
        /\ w.invocations <= retry_config.max_retries
  /\ w.pc = "returned" =>
        /\ w.raised = None
        /\ w.returned = Some(w.invocations - 1)
        /\ w.slept = None /\ w.on_retry_args = None
  /\ w.pc = "raised" =>
        /\ w.returned = None
        /\ w.raised = w.last_exception
        /\ w.raised # None
        /\ w.slept = None /\ w.on_retry_args = None
        /\ should_retry(Val(w.raised)) => w.invocations = retry_config.max_retries + 1

C29_RetryBoundedAndTerminates ==
  /\ [](WrapperAsClaimed(Val(wrapper)))
  /\ <>(Finished(Val(wrapper)))

\* the function failed with transient errors until its last allowed invocation,
\* which succeeded, and on_retry was given
C29_Witness ==
  /\ wrapper # None
  /\ Val(wrapper).pc = "returned"
  /\ Val(wrapper).has_on_retry
  /\ retry_config.max_retries = 5
  /\ Val(wrapper).invocations = 6
  /\ Val(wrapper).sleeps = 5

\* the other endings of the call
RaisedAtOnce ==
  /\ wrapper # None
  /\ Val(wrapper).pc = "raised"
  /\ Val(wrapper).invocations = 1
  /\ retry_config.max_retries > 0

RetriesExhausted ==
  /\ wrapper # None
  /\ Val(wrapper).pc = "raised"
  /\ retry_config.max_retries = 3
  /\ Val(wrapper).invocations = 4

\* ------------------------------------------------------------------------
\* C30: backoff delays are capped at max_delay: for every retry count n >= 0
\* get_delay(n) returns at most max_delay, with jitter enabled or disabled;
\* without jitter it returns exactly min(base_delay * exponential_base^n,
\* max_delay), which is non-decreasing in n.
\* ------------------------------------------------------------------------
CappedBackoff(n) ==
  QMin(QMul(retry_config.base_delay, QPow(retry_config.exponential_base, n)),
       retry_config.max_delay)

AtMostMaxDelay(call) == ~QLess(retry_config.max_delay, call.delay)

ExactWithoutJitter(call) ==
  ~retry_config.jitter => call.delay = CappedBackoff(call.retry_count)

NonDecreasing ==
  (/\ ~retry_config.jitter
   /\ delay_call # None
   /\ delay_call' # None
   /\ Val(delay_call).retry_count <= Val(delay_call').retry_count)
    => ~QLess(Val(delay_call').delay, Val(delay_call).delay)

C30_DelayCappedAtMaxDelay ==
  /\ [](delay_call # None =>
          AtMostMaxDelay(Val(delay_call)) /\ ExactWithoutJitter(Val(delay_call)))
  /\ [][NonDecreasing]_vars

\* what get_delay does keep: without jitter the capped backoff, non-decreasing;
\* with jitter between 0.9 and 1.09 times the capped backoff
C30_DelayWithinJitterOfCap ==
  /\ [](delay_call # None =>
          LET call == Val(delay_call)
              capped == CappedBackoff(call.retry_count)
          IN  /\ ExactWithoutJitter(call)
              /\ ~QLess(call.delay, QMul(capped, Frac(90, 100)))
              /\ ~QLess(QMul(capped, Frac(109, 100)), call.delay))
  /\ [][NonDecreasing]_vars

\* a delay above the cap: the default configuration at a retry count whose raw
\* delay exceeds max_delay, with the largest jitter
DelayAboveCap ==
  /\ delay_call # None
  /\ retry_config = GENERIC_CONFIG
  /\ Val(delay_call).retry_count = 7
  /\ Val(delay_call).delay = Frac(6540, 100)
====
